---- MODULE Spec2Model ----
(***************************************************************************)
(* Model of the Document class of niicojs/word: the in-memory document     *)
(* (body elements, section properties, namespace declarations, part store, *)
(* dirty flag), page segmentation, page removal and the merge engine.      *)
(*                                                                         *)
(* XML nodes follow the preserveOrder layout of the XML collaborator: a    *)
(* node is a record with its tag name, its ordered children ("kids") and,  *)
(* only when it has attributes, its attribute map ("attrs", the ":@" slot).*)
(* A text leaf is [tag |-> "#text", text |-> ...].  Attribute names are    *)
(* written without the "@_" marker that createElement adds and the parser  *)
(* produces.  JavaScript arrays are 0-based; sequences here are 1-based,   *)
(* PageInfo values keep the 0-based indices of the program.                *)
(***************************************************************************)
EXTENDS Integers, Sequences, FiniteSets, TLC

\* target is the Document under study.  theSource and heap are used where two
\* documents live side by side: theSource is the second Document and heap
\* holds the body arrays of both and the number of nodes allocated so far.
\* calls holds the merge calls on the target that were started and not
\* awaited, each with what is left of it to run.
VARIABLES target, theSource, heap, calls

vars == <<target, theSource, heap, calls>>

(***************************************************************************)
(* Bounds of the model.                                                    *)
(***************************************************************************)
MaxBody == 3
MaxPageIndex == 1
MaxLen == 4

MaxSourceBreaks == 2
MaxBuiltBody == 2

(***************************************************************************)
(* Program constants.                                                      *)
(***************************************************************************)
W_NS == "http://schemas.openxmlformats.org/wordprocessingml/2006/main"
R_NS == "http://schemas.openxmlformats.org/officeDocument/2006/relationships"
PKG_NS == "http://schemas.openxmlformats.org/package/2006/relationships"
CT_NS == "http://schemas.openxmlformats.org/package/2006/content-types"

DocumentPath == "word/document.xml"
ContentTypesPath == "[Content_Types].xml"
RootRelsPath == "_rels/.rels"
DocumentRelsPath == "word/_rels/document.xml.rels"

Null == [null |-> TRUE]
NoAttrs == <<>>
EmptyMap == <<>>

\* No second document.
NoHeap == [arrays |-> <<>>, next |-> 0]
Alone == theSource = Null /\ heap = NoHeap /\ calls = <<>>

(***************************************************************************)
(* utils/xml                                                               *)
(***************************************************************************)
createElement(tagName, attrs, children) ==
  IF DOMAIN attrs # {}
    THEN [tag |-> tagName, kids |-> children, attrs |-> attrs]
    ELSE [tag |-> tagName, kids |-> children]

createText(text) == [tag |-> "#text", text |-> text]

HasTag(node, tagName) == node.tag = tagName

getChildren(node, tagName) ==
  IF HasTag(node, tagName) /\ "kids" \in DOMAIN node THEN node.kids ELSE <<>>

nodeAttrs(node) == IF "attrs" \in DOMAIN node THEN node.attrs ELSE NoAttrs

RECURSIVE findElementFrom(_, _, _)
findElementFrom(nodes, tagName, i) ==
  IF i > Len(nodes) THEN Null
  ELSE IF HasTag(nodes[i], tagName) THEN nodes[i]
  ELSE findElementFrom(nodes, tagName, i + 1)

findElement(nodes, tagName) == findElementFrom(nodes, tagName, 1)

RECURSIVE jsonCopy(_)
jsonCopy(node) ==
  IF "kids" \in DOMAIN node
    THEN [f \in DOMAIN node |->
            IF f = "kids" THEN [i \in 1..Len(node.kids) |-> jsonCopy(node.kids[i])]
            ELSE node[f]]
    ELSE node

cloneNode(node) == jsonCopy(node)

cloneNodes(nodes) == [i \in 1..Len(nodes) |-> jsonCopy(nodes[i])]

(***************************************************************************)
(* An XML text is the declaration flag and the markup of its nodes.        *)
(***************************************************************************)
stringifyXml(nodes) == [markup |-> nodes]

XmlDeclaration == [tag |-> "?xml", kids |-> <<createText("")>>,
                   attrs |-> [version |-> "1.0", encoding |-> "UTF-8", standalone |-> "yes"]]

WithDeclaration(xml) == [declaration |-> TRUE, markup |-> xml.markup]

parseXml(xml) ==
  IF "declaration" \in DOMAIN xml /\ xml.declaration
    THEN <<XmlDeclaration>> \o xml.markup
    ELSE xml.markup

(***************************************************************************)
(* utils/zip: an archive is a map path -> content; a content is either a   *)
(* text (strToU8 of an XML text) or an opaque blob with its length.        *)
(***************************************************************************)
strToU8(text) == [text |-> text, length |-> 1]
strFromU8(data) == data.text
Blob(name) == [blob |-> name, length |-> 1]
EmptyContent == [blob |-> "", length |-> 0]

DirectoryPaths == {"word/"}
EndsWithSlash(path) == path \in DirectoryPaths

readZip(data) ==
  LET keep == {p \in DOMAIN data : ~EndsWithSlash(p) /\ data[p].length > 0}
  IN [p \in keep |-> data[p]]

writeZip(files) ==
  LET keep == {p \in DOMAIN files : ~(EndsWithSlash(p) \/ files[p].length = 0)}
  IN [p \in keep |-> files[p]]

HasText(files, path) == path \in DOMAIN files /\ "text" \in DOMAIN files[path]

readZipText(files, path) == strFromU8(files[path])

writeZipText(files, path, content) ==
  [p \in DOMAIN files \cup {path} |-> IF p = path THEN strToU8(content) ELSE files[p]]

(***************************************************************************)
(* Document: construction and loading.  The field _documentParsed is       *)
(* written by _parseDocument and never read again; it is left out.         *)
(***************************************************************************)
NewDocument ==
  [files |-> EmptyMap, bodyElements |-> <<>>, dirty |-> FALSE,
   namespaces |-> EmptyMap, sectPr |-> Null]

create == [NewDocument EXCEPT !.dirty = TRUE]

NamespaceAttrNames == {"xmlns", "xmlns:w", "xmlns:r", "xmlns:w14", "xmlns:mc"}
StartsWithXmlns(key) == key \in NamespaceAttrNames

RECURSIVE FilterOutTag(_, _)
FilterOutTag(nodes, tagName) ==
  IF nodes = <<>> THEN <<>>
  ELSE IF HasTag(Head(nodes), tagName) THEN FilterOutTag(Tail(nodes), tagName)
  ELSE <<Head(nodes)>> \o FilterOutTag(Tail(nodes), tagName)

\* Mutant: the section properties stay among the body elements.
parseDocumentKeepsSectPr(doc, xml) ==
  LET documentParsed == parseXml(xml)
      documentNode == findElement(documentParsed, "w:document")
      attrs == nodeAttrs(documentNode)
      nsKeys == {k \in DOMAIN attrs : StartsWithXmlns(k)}
      namespaces == [k \in DOMAIN doc.namespaces \cup nsKeys |->
                       IF k \in nsKeys THEN attrs[k] ELSE doc.namespaces[k]]
      withNs == [doc EXCEPT !.namespaces = namespaces]
      documentChildren == getChildren(documentNode, "w:document")
      bodyNode == findElement(documentChildren, "w:body")
      bodyChildren == getChildren(bodyNode, "w:body")
      sectPrNode == findElement(bodyChildren, "w:sectPr")
  IN IF documentNode = Null THEN doc
     ELSE IF bodyNode = Null THEN withNs
     ELSE [withNs EXCEPT
             !.sectPr = IF sectPrNode # Null THEN sectPrNode ELSE @,
             !.bodyElements = bodyChildren]

\* Mutant: without a body root the children of the document root are read.
parseDocumentWithoutBody(doc, xml) ==
  LET documentParsed == parseXml(xml)
      documentNode == findElement(documentParsed, "w:document")
      attrs == nodeAttrs(documentNode)
      nsKeys == {k \in DOMAIN attrs : StartsWithXmlns(k)}
      namespaces == [k \in DOMAIN doc.namespaces \cup nsKeys |->
                       IF k \in nsKeys THEN attrs[k] ELSE doc.namespaces[k]]
      withNs == [doc EXCEPT !.namespaces = namespaces]
      documentChildren == getChildren(documentNode, "w:document")
      bodyNode == findElement(documentChildren, "w:body")
      bodyChildren == IF bodyNode = Null THEN documentChildren
                      ELSE getChildren(bodyNode, "w:body")
      sectPrNode == findElement(bodyChildren, "w:sectPr")
  IN IF documentNode = Null THEN doc
     ELSE [withNs EXCEPT
             !.sectPr = IF sectPrNode # Null THEN sectPrNode ELSE @,
             !.bodyElements = FilterOutTag(bodyChildren, "w:sectPr")]

parseDocument(doc, xml) ==
  LET documentParsed == parseXml(xml)
      documentNode == findElement(documentParsed, "w:document")
      attrs == nodeAttrs(documentNode)
      nsKeys == {k \in DOMAIN attrs : StartsWithXmlns(k)}
      namespaces == [k \in DOMAIN doc.namespaces \cup nsKeys |->
                       IF k \in nsKeys THEN attrs[k] ELSE doc.namespaces[k]]
      withNs == [doc EXCEPT !.namespaces = namespaces]
      documentChildren == getChildren(documentNode, "w:document")
      bodyNode == findElement(documentChildren, "w:body")
      bodyChildren == getChildren(bodyNode, "w:body")
      sectPrNode == findElement(bodyChildren, "w:sectPr")
  IN IF documentNode = Null THEN doc
     ELSE IF bodyNode = Null THEN withNs
     ELSE [withNs EXCEPT
             !.sectPr = IF sectPrNode # Null THEN sectPrNode ELSE @,
             !.bodyElements = FilterOutTag(bodyChildren, "w:sectPr")]

fromBuffer(data) ==
  LET doc == [NewDocument EXCEPT !.files = readZip(data)]
  IN IF HasText(doc.files, DocumentPath)
       THEN parseDocument(doc, readZipText(doc.files, DocumentPath))
       ELSE doc

(***************************************************************************)
(* Page segmentation.                                                      *)
(***************************************************************************)
\* Mutant: the break element carries no type attribute.
createPageBreakParagraphUntyped ==
  LET brElement == createElement("w:br", NoAttrs, <<>>)
      runElement == createElement("w:r", NoAttrs, <<brElement>>)
      paragraphElement == createElement("w:p", NoAttrs, <<runElement>>)
  IN paragraphElement

createPageBreakParagraph ==
  LET brElement == createElement("w:br", "w:type" :> "page", <<>>)
      runElement == createElement("w:r", NoAttrs, <<brElement>>)
      paragraphElement == createElement("w:p", NoAttrs, <<runElement>>)
  IN paragraphElement

IsPageBr(runChild) ==
  /\ HasTag(runChild, "w:br")
  /\ "w:type" \in DOMAIN nodeAttrs(runChild)
  /\ nodeAttrs(runChild)["w:type"] = "page"

paragraphHasPageBreak(paragraph) ==
  LET children == getChildren(paragraph, "w:p")
  IN \E c \in 1..Len(children) :
       /\ HasTag(children[c], "w:r")
       /\ LET runChildren == getChildren(children[c], "w:r")
          IN \E r \in 1..Len(runChildren) : IsPageBr(runChildren[r])

hasPageBreak(element) ==
  IF HasTag(element, "w:p") THEN paragraphHasPageBreak(element) ELSE FALSE

PageInfo(index, startElement, endElement) ==
  [index |-> index, startElement |-> startElement, endElement |-> endElement]

\* Mutant: the next page starts at the break itself.
RECURSIVE getPagesLoopStartAtBreak(_, _, _, _, _)
getPagesLoopStartAtBreak(bodyElements, i, pages, currentPageStart, pageIndex) ==
  IF ~(i < Len(bodyElements))
    THEN [pages |-> pages, currentPageStart |-> currentPageStart, pageIndex |-> pageIndex]
  ELSE IF hasPageBreak(bodyElements[i + 1])
    THEN getPagesLoopStartAtBreak(bodyElements, i + 1,
                      Append(pages, PageInfo(pageIndex, currentPageStart, i)),
                      i, pageIndex + 1)
  ELSE getPagesLoopStartAtBreak(bodyElements, i + 1, pages, currentPageStart, pageIndex)

\* The for loop of getPages: i is the 0-based loop index.
RECURSIVE getPagesLoop(_, _, _, _, _)
getPagesLoop(bodyElements, i, pages, currentPageStart, pageIndex) ==
  IF ~(i < Len(bodyElements))
    THEN [pages |-> pages, currentPageStart |-> currentPageStart, pageIndex |-> pageIndex]
  ELSE IF hasPageBreak(bodyElements[i + 1])
    THEN getPagesLoop(bodyElements, i + 1,
                      Append(pages, PageInfo(pageIndex, currentPageStart, i)),
                      i + 1, pageIndex + 1)
  ELSE getPagesLoop(bodyElements, i + 1, pages, currentPageStart, pageIndex)

\* Mutant: no empty final page after a trailing break.
getPagesOfNoTrailingPage(bodyElements) ==
  LET scan == getPagesLoop(bodyElements, 0, <<>>, 0, 0)
  IN IF scan.currentPageStart < Len(bodyElements)
       THEN Append(scan.pages,
                   PageInfo(scan.pageIndex, scan.currentPageStart, Len(bodyElements) - 1))
     ELSE IF Len(scan.pages) > 0
       THEN scan.pages
     ELSE Append(scan.pages, PageInfo(0, -1, -1))

getPagesOf(bodyElements) ==
  LET scan == getPagesLoop(bodyElements, 0, <<>>, 0, 0)
  IN IF scan.currentPageStart < Len(bodyElements)
       THEN Append(scan.pages,
                   PageInfo(scan.pageIndex, scan.currentPageStart, Len(bodyElements) - 1))
     ELSE IF Len(scan.pages) > 0
       THEN Append(scan.pages, PageInfo(scan.pageIndex, -1, -1))
     ELSE Append(scan.pages, PageInfo(0, -1, -1))

getPages(doc) == getPagesOf(doc.bodyElements)

getPageCount(doc) == Len(getPages(doc))

(***************************************************************************)
(* Page operations.                                                        *)
(***************************************************************************)
addPageBreak(doc) ==
  [doc EXCEPT !.dirty = TRUE,
              !.bodyElements = Append(@, createPageBreakParagraph)]

\* Mutant: the removal starts one element late.
spliceFromNext(array, start, deleteCount) ==
  SubSeq(array, 1, start + 1) \o SubSeq(array, start + deleteCount + 2, Len(array))

\* Array.prototype.splice(start, deleteCount) with a 0-based start.
splice(array, start, deleteCount) ==
  SubSeq(array, 1, start) \o SubSeq(array, start + deleteCount + 1, Len(array))

\* new Error(`Page index out of bounds: ${index}. Document has ${count} page(s).`)
OutOfBounds(index, count) ==
  [error |-> <<"Page index out of bounds: ", index, ". Document has ", count, " page(s).">>]

\* Mutant: one element too few.
removeCountOfShort(page) == page.endElement - page.startElement

removeCountOf(page) == page.endElement - page.startElement + 1

\* Mutant: the dirty flag is set before the bounds check.
removePageMarksFirst(doc, index) ==
  LET pages == getPages(doc)
      marked == [doc EXCEPT !.dirty = TRUE]
  IN IF index < 0 \/ index >= Len(pages)
       THEN [doc |-> marked, thrown |-> OutOfBounds(index, Len(pages))]
     ELSE LET page == pages[index + 1]
          IN IF page.startElement = -1
               THEN IF index > 0 /\ pages[index].endElement >= 0
                      THEN [doc |-> [marked EXCEPT !.bodyElements =
                                       splice(@, pages[index].endElement, 1)],
                            thrown |-> Null]
                      ELSE [doc |-> marked, thrown |-> Null]
               ELSE [doc |-> [marked EXCEPT !.bodyElements =
                                splice(@, page.startElement, removeCountOf(page))],
                     thrown |-> Null]

\* Mutant: an empty trailing page is removed without its preceding break.
removePageKeepsBreak(doc, index) ==
  LET pages == getPages(doc)
      marked == [doc EXCEPT !.dirty = TRUE]
  IN IF index < 0 \/ index >= Len(pages)
       THEN [doc |-> doc, thrown |-> OutOfBounds(index, Len(pages))]
     ELSE LET page == pages[index + 1]
          IN IF page.startElement = -1
               THEN [doc |-> marked, thrown |-> Null]
               ELSE [doc |-> [marked EXCEPT !.bodyElements =
                                splice(@, page.startElement, removeCountOf(page))],
                     thrown |-> Null]

\* removePage returns the document it leaves and the error it throws, if any.
removePage(doc, index) ==
  LET pages == getPages(doc)
      marked == [doc EXCEPT !.dirty = TRUE]
  IN IF index < 0 \/ index >= Len(pages)
       THEN [doc |-> doc, thrown |-> OutOfBounds(index, Len(pages))]
     ELSE LET page == pages[index + 1]
          IN IF page.startElement = -1
               THEN IF index > 0 /\ pages[index].endElement >= 0
                      THEN [doc |-> [marked EXCEPT !.bodyElements =
                                       splice(@, pages[index].endElement, 1)],
                            thrown |-> Null]
                      ELSE [doc |-> marked, thrown |-> Null]
               ELSE [doc |-> [marked EXCEPT !.bodyElements =
                                splice(@, page.startElement, removeCountOf(page))],
                     thrown |-> Null]

(***************************************************************************)
(* Merge engine.                                                           *)
(***************************************************************************)
\* Mutant: the source's value replaces the target's on a collision.
mergeNamespacesSourceWins(namespaces, sourceNamespaces) ==
  [key \in DOMAIN namespaces \cup DOMAIN sourceNamespaces |->
     IF key \in DOMAIN sourceNamespaces THEN sourceNamespaces[key] ELSE namespaces[key]]

mergeNamespaces(namespaces, sourceNamespaces) ==
  [key \in DOMAIN namespaces \cup DOMAIN sourceNamespaces |->
     IF ~(key \in DOMAIN namespaces) THEN sourceNamespaces[key] ELSE namespaces[key]]

\* Mutant: the primary document part is copied with the others.
copyDocumentStructureAllParts(doc, sourceDoc) ==
  LET sectPr == IF sourceDoc.sectPr # Null /\ doc.sectPr = Null
                  THEN cloneNode(sourceDoc.sectPr) ELSE doc.sectPr
      copied == {path \in DOMAIN sourceDoc.files : ~(path \in DOMAIN doc.files)}
      files == [path \in DOMAIN doc.files \cup copied |->
                  IF path \in DOMAIN doc.files THEN doc.files[path]
                  ELSE sourceDoc.files[path]]
  IN [doc EXCEPT !.sectPr = sectPr, !.files = files]

copyDocumentStructure(doc, sourceDoc) ==
  LET sectPr == IF sourceDoc.sectPr # Null /\ doc.sectPr = Null
                  THEN cloneNode(sourceDoc.sectPr) ELSE doc.sectPr
      copied == {path \in DOMAIN sourceDoc.files :
                   path # DocumentPath /\ ~(path \in DOMAIN doc.files)}
      files == [path \in DOMAIN doc.files \cup copied |->
                  IF path \in DOMAIN doc.files THEN doc.files[path]
                  ELSE sourceDoc.files[path]]
  IN [doc EXCEPT !.sectPr = sectPr, !.files = files]

\* Mutant: the selected pages are taken in source order.
filterMapPagesSourceOrder(requested, sourcePages) ==
  SelectSeq(sourcePages,
            LAMBDA page : \E i \in 1 .. Len(requested) : requested[i] = page.index)

\* options.pages.filter(in range).map(idx => sourcePages[idx])
RECURSIVE filterMapPages(_, _)
filterMapPages(requested, sourcePages) ==
  IF requested = <<>> THEN <<>>
  ELSE LET idx == Head(requested)
           rest == filterMapPages(Tail(requested), sourcePages)
       IN IF idx >= 0 /\ idx < Len(sourcePages)
            THEN <<sourcePages[idx + 1]>> \o rest
            ELSE rest

pagesToMergeOf(sourcePages, options) ==
  IF "pages" \in DOMAIN options
    THEN filterMapPages(options.pages, sourcePages)
    ELSE sourcePages

\* Array.prototype.slice(start, end) with 0-based start and exclusive end.
slice(array, start, end) == SubSeq(array, start + 1, end)

\* The for loop that collects the elements of the selected pages.
RECURSIVE appendPages(_, _, _)
appendPages(bodyElements, pagesToMerge, sourceElements) ==
  IF pagesToMerge = <<>> THEN bodyElements
  ELSE LET page == Head(pagesToMerge)
       IN IF page.startElement = -1
            THEN appendPages(bodyElements, Tail(pagesToMerge), sourceElements)
            ELSE LET elements == slice(sourceElements, page.startElement, page.endElement + 1)
                     clonedElements == cloneNodes(elements)
                 IN appendPages(bodyElements \o clonedElements, Tail(pagesToMerge),
                                sourceElements)

\* Mutant: the option is ignored (options.addPageBreakBefore || true).
addPageBreakBeforeOfAlways(options) == TRUE

\* Mutant: an omitted addPageBreakBefore counts as false.
addPageBreakBeforeOfStrict(options) ==
  "addPageBreakBefore" \in DOMAIN options /\ options.addPageBreakBefore = TRUE

\* options.addPageBreakBefore !== false
addPageBreakBeforeOf(options) ==
  ~("addPageBreakBefore" \in DOMAIN options /\ options.addPageBreakBefore = FALSE)

\* Mutant: a document without body elements counts as a first merge
\* whatever its parts.
isFirstMergeOfEmptyBody(doc) == Len(doc.bodyElements) = 0

\* this._bodyElements.length === 0 && this._files.size === 0
isFirstMergeOf(doc) == Len(doc.bodyElements) = 0 /\ DOMAIN doc.files = {}

\* Mutant: the break is pushed before the empty-list return.
mergeBreakFirst(doc, sourceDoc, options) ==
  LET marked == [doc EXCEPT !.dirty = TRUE,
                            !.namespaces = mergeNamespaces(@, sourceDoc.namespaces)]
      isFirstMerge == isFirstMergeOf(marked)
      seeded == IF isFirstMerge THEN copyDocumentStructure(marked, sourceDoc) ELSE marked
      sourcePages == getPages(sourceDoc)
      addPageBreakBefore == addPageBreakBeforeOf(options)
      pagesToMerge == pagesToMergeOf(sourcePages, options)
      withBreak == IF addPageBreakBefore /\ Len(seeded.bodyElements) > 0
                     THEN Append(seeded.bodyElements, createPageBreakParagraph)
                     ELSE seeded.bodyElements
  IN IF Len(pagesToMerge) = 0 THEN [seeded EXCEPT !.bodyElements = withBreak]
     ELSE [seeded EXCEPT !.bodyElements =
             appendPages(withBreak, pagesToMerge, sourceDoc.bodyElements)]

\* Mutant: pages without elements count for nothing.
mergeNeedsContent(doc, sourceDoc, options) ==
  LET marked == [doc EXCEPT !.dirty = TRUE,
                            !.namespaces = mergeNamespaces(@, sourceDoc.namespaces)]
      isFirstMerge == isFirstMergeOf(marked)
      seeded == IF isFirstMerge THEN copyDocumentStructure(marked, sourceDoc) ELSE marked
      sourcePages == getPages(sourceDoc)
      addPageBreakBefore == addPageBreakBeforeOf(options)
      pagesToMerge == pagesToMergeOf(sourcePages, options)
      withBreak == IF addPageBreakBefore /\ Len(seeded.bodyElements) > 0
                     THEN Append(seeded.bodyElements, createPageBreakParagraph)
                     ELSE seeded.bodyElements
  IN IF \A k \in 1 .. Len(pagesToMerge) : pagesToMerge[k].startElement = -1 THEN seeded
     ELSE [seeded EXCEPT !.bodyElements =
             appendPages(withBreak, pagesToMerge, sourceDoc.bodyElements)]

\* merge once the source is resolved to sourceDoc.
merge(doc, sourceDoc, options) ==
  LET marked == [doc EXCEPT !.dirty = TRUE,
                            !.namespaces = mergeNamespaces(@, sourceDoc.namespaces)]
      isFirstMerge == isFirstMergeOf(marked)
      seeded == IF isFirstMerge THEN copyDocumentStructure(marked, sourceDoc) ELSE marked
      sourcePages == getPages(sourceDoc)
      addPageBreakBefore == addPageBreakBeforeOf(options)
      pagesToMerge == pagesToMergeOf(sourcePages, options)
      withBreak == IF addPageBreakBefore /\ Len(seeded.bodyElements) > 0
                     THEN Append(seeded.bodyElements, createPageBreakParagraph)
                     ELSE seeded.bodyElements
  IN IF Len(pagesToMerge) = 0 THEN seeded
     ELSE [seeded EXCEPT !.bodyElements =
             appendPages(withBreak, pagesToMerge, sourceDoc.bodyElements)]

(***************************************************************************)
(* Serialization.                                                          *)
(***************************************************************************)
createContentTypes ==
  LET types == createElement("Types", "xmlns" :> CT_NS, <<
        createElement("Default",
          ("Extension" :> "rels") @@
          ("ContentType" :> "application/vnd.openxmlformats-package.relationships+xml"), <<>>),
        createElement("Default",
          ("Extension" :> "xml") @@ ("ContentType" :> "application/xml"), <<>>),
        createElement("Override",
          ("PartName" :> "/word/document.xml") @@
          ("ContentType" :>
             "application/vnd.openxmlformats-officedocument.wordprocessingml.document.main+xml"),
          <<>>) >>)
  IN WithDeclaration(stringifyXml(<<types>>))

createRootRels ==
  LET rels == createElement("Relationships", "xmlns" :> PKG_NS, <<
        createElement("Relationship",
          ("Id" :> "rId1") @@
          ("Type" :>
             "http://schemas.openxmlformats.org/officeDocument/2006/relationships/officeDocument") @@
          ("Target" :> "word/document.xml"), <<>>) >>)
  IN WithDeclaration(stringifyXml(<<rels>>))

createDocumentRels ==
  LET rels == createElement("Relationships", "xmlns" :> PKG_NS, <<>>)
  IN WithDeclaration(stringifyXml(<<rels>>))

\* Mutant: the relationships part of the document is not created.
ensureBasicStructureNoDocumentRels(files) ==
  LET f1 == IF ~(ContentTypesPath \in DOMAIN files)
              THEN writeZipText(files, ContentTypesPath, createContentTypes) ELSE files
      f2 == IF ~(RootRelsPath \in DOMAIN f1)
              THEN writeZipText(f1, RootRelsPath, createRootRels) ELSE f1
  IN f2

ensureBasicStructure(files) ==
  LET f1 == IF ~(ContentTypesPath \in DOMAIN files)
              THEN writeZipText(files, ContentTypesPath, createContentTypes) ELSE files
      f2 == IF ~(RootRelsPath \in DOMAIN f1)
              THEN writeZipText(f1, RootRelsPath, createRootRels) ELSE f1
      f3 == IF ~(DocumentRelsPath \in DOMAIN f2)
              THEN writeZipText(f2, DocumentRelsPath, createDocumentRels) ELSE f2
  IN f3

defaultSectPr ==
  createElement("w:sectPr", NoAttrs, <<
    createElement("w:pgSz", ("w:w" :> "12240") @@ ("w:h" :> "15840"), <<>>),
    createElement("w:pgMar",
      ("w:top" :> "1440") @@ ("w:right" :> "1440") @@ ("w:bottom" :> "1440") @@
      ("w:left" :> "1440") @@ ("w:header" :> "720") @@ ("w:footer" :> "720") @@
      ("w:gutter" :> "0"), <<>>) >>)

\* Mutant: the collected declarations are not used.
getNamespaceAttributesDefaults(doc) == ("xmlns:w" :> W_NS) @@ ("xmlns:r" :> R_NS)

getNamespaceAttributes(doc) ==
  IF Cardinality(DOMAIN doc.namespaces) > 0
    THEN doc.namespaces
    ELSE ("xmlns:w" :> W_NS) @@ ("xmlns:r" :> R_NS)

\* Mutant: no section properties are written when none are stored.
updateDocumentXmlStoredOnly(doc) ==
  LET bodyChildren == IF doc.sectPr # Null
                        THEN Append(doc.bodyElements, cloneNode(doc.sectPr))
                        ELSE doc.bodyElements
      body == createElement("w:body", NoAttrs, bodyChildren)
      namespaceAttrs == getNamespaceAttributes(doc)
      document == createElement("w:document", namespaceAttrs, <<body>>)
      xml == WithDeclaration(stringifyXml(<<document>>))
  IN [doc EXCEPT !.files = writeZipText(@, DocumentPath, xml)]

\* Mutant: the section properties are pushed onto the body array itself.
updateDocumentXmlPushesIntoBody(doc) ==
  LET bodyChildren == IF doc.sectPr # Null
                        THEN Append(doc.bodyElements, cloneNode(doc.sectPr))
                        ELSE Append(doc.bodyElements, defaultSectPr)
      body == createElement("w:body", NoAttrs, bodyChildren)
      namespaceAttrs == getNamespaceAttributes(doc)
      document == createElement("w:document", namespaceAttrs, <<body>>)
      xml == WithDeclaration(stringifyXml(<<document>>))
  IN [doc EXCEPT !.files = writeZipText(@, DocumentPath, xml),
                 !.bodyElements = bodyChildren]

updateDocumentXml(doc) ==
  LET bodyChildren == IF doc.sectPr # Null
                        THEN Append(doc.bodyElements, cloneNode(doc.sectPr))
                        ELSE Append(doc.bodyElements, defaultSectPr)
      body == createElement("w:body", NoAttrs, bodyChildren)
      namespaceAttrs == getNamespaceAttributes(doc)
      document == createElement("w:document", namespaceAttrs, <<body>>)
      xml == WithDeclaration(stringifyXml(<<document>>))
  IN [doc EXCEPT !.files = writeZipText(@, DocumentPath, xml)]

\* Mutant: a document with parts is never regenerated.
updateFilesUnlessParts(doc) ==
  IF Cardinality(DOMAIN doc.files) > 0
    THEN doc
    ELSE updateDocumentXml([doc EXCEPT !.files = ensureBasicStructure(@)])

updateFiles(doc) ==
  IF ~doc.dirty /\ Cardinality(DOMAIN doc.files) > 0
    THEN doc
    ELSE updateDocumentXml([doc EXCEPT !.files = ensureBasicStructure(@)])

\* Mutant: a saved document counts as unchanged.
toBufferClearsDirty(doc) ==
  LET updated == updateFiles(doc)
  IN [doc |-> [updated EXCEPT !.dirty = FALSE], buffer |-> writeZip(updated.files)]

\* Mutant: the parts are generated for the archive only, not stored.
toBufferKeepsStore(doc) ==
  LET updated == updateFiles(doc)
  IN [doc |-> doc, buffer |-> writeZip(updated.files)]

\* toBuffer returns the document it leaves and the archive it produces.
toBuffer(doc) ==
  LET updated == updateFiles(doc)
  IN [doc |-> updated, buffer |-> writeZip(updated.files)]

(***************************************************************************)
(* Inputs: body elements and archives handed to fromBuffer and merge.      *)
(***************************************************************************)
STRICT_NS == "http://purl.oclc.org/ooxml/wordprocessingml/main"
W14_NS == "http://schemas.microsoft.com/office/word/2010/wordml"

TextParagraph(text) ==
  createElement("w:p", NoAttrs, <<
    createElement("w:r", NoAttrs, <<
      createElement("w:t", NoAttrs, <<createText(text)>>) >>) >>)

\* A paragraph with text whose second run ends in a page break.
TextBreakParagraph ==
  createElement("w:p", NoAttrs, <<
    createElement("w:r", NoAttrs, <<
      createElement("w:t", NoAttrs, <<createText("x")>>) >>),
    createElement("w:r", NoAttrs, <<
      createElement("w:br", "w:type" :> "page", <<>>) >>) >>)

\* A paragraph with a line break, which is not a page break.
LineBreakParagraph ==
  createElement("w:p", NoAttrs, <<
    createElement("w:r", NoAttrs, <<createElement("w:br", NoAttrs, <<>>)>>) >>)

\* A table whose cell holds a page break paragraph.
TableWithBreak ==
  createElement("w:tbl", NoAttrs, <<
    createElement("w:tr", NoAttrs, <<
      createElement("w:tc", NoAttrs, <<createPageBreakParagraph>>) >>) >>)

SectPrA4 ==
  createElement("w:sectPr", NoAttrs, <<
    createElement("w:pgSz", ("w:w" :> "11906") @@ ("w:h" :> "16838"), <<>>) >>)

DocumentXml(attrs, documentChildren) ==
  strToU8(WithDeclaration(stringifyXml(<<createElement("w:document", attrs, documentChildren)>>)))

ArchiveLetter ==
  (ContentTypesPath :> Blob("types-a")) @@
  (RootRelsPath :> Blob("rels-a")) @@
  ("word/" :> EmptyContent) @@
  ("word/styles.xml" :> Blob("styles-a")) @@
  (DocumentPath :> DocumentXml(
     ("xmlns:w" :> W_NS) @@ ("xmlns:w14" :> W14_NS) @@ ("mc:Ignorable" :> "w14"),
     <<createElement("w:body", NoAttrs,
         <<TextBreakParagraph, TableWithBreak, SectPrA4>>)>>))

ArchiveStrict ==
  ("word/styles.xml" :> Blob("styles-b")) @@
  ("word/header1.xml" :> Blob("header-b")) @@
  (DocumentPath :> DocumentXml(
     ("xmlns:w" :> STRICT_NS) @@ ("xmlns:r" :> R_NS),
     <<createElement("w:body", NoAttrs, <<TextParagraph("b")>>)>>))

ArchiveNoDocument == (ContentTypesPath :> Blob("types-c"))

ArchiveNoBody ==
  (DocumentPath :> DocumentXml("xmlns:w" :> W_NS, <<>>))

ArchiveNoRoot ==
  (DocumentPath :>
     strToU8(WithDeclaration(stringifyXml(<<createElement("html", NoAttrs, <<>>)>>))))

\* Bytes that the archive collaborator cannot open.
CorruptArchive == [corrupt |-> TRUE]

SampleArchives == {ArchiveLetter, ArchiveStrict, ArchiveNoDocument, CorruptArchive}

unzipThrows(data) == "corrupt" \in DOMAIN data

MalformedInput == [error |-> "invalid zip data"]

\* options.pages: no index, one index, or two indices in either order or repeated,
\* each in range of some source or out of range on either side (a list of two
\* starts with a non-negative index).
PageIndexes == -1 .. MaxPageIndex

PagesArgs ==
  {<<>>} \cup {<<i>> : i \in PageIndexes}
    \cup {<<i, j>> : i \in 0 .. MaxPageIndex, j \in PageIndexes}

MergeOptionsSet ==
  {<<>>} \cup {[pages |-> L] : L \in PagesArgs}
    \cup {[addPageBreakBefore |-> b] : b \in BOOLEAN}
    \cup {[pages |-> L, addPageBreakBefore |-> b] : L \in PagesArgs, b \in BOOLEAN}

(***************************************************************************)
(* The sources a caller can hand to merge: Document instances (a created   *)
(* document with some page breaks, a loaded document, the target itself)   *)
(* and byte buffers, which merge opens first.                              *)
(***************************************************************************)
RECURSIVE WithBreaks(_, _)
WithBreaks(document, n) ==
  IF n = 0 THEN document ELSE WithBreaks(addPageBreak(document), n - 1)

SourceDocuments ==
  {WithBreaks(create, n) : n \in 0 .. MaxSourceBreaks}
    \cup {fromBuffer(ArchiveLetter)}

SourceBuffers == {ArchiveStrict, CorruptArchive}

Sources ==
  {[kind |-> "self"]}
    \cup {[kind |-> "document", document |-> s] : s \in SourceDocuments}
    \cup {[kind |-> "buffer", data |-> b] : b \in SourceBuffers}

\* The files that fromFile can read; reading any other path fails.
FileSystem == ("letter.docx" :> ArchiveLetter) @@ ("broken.docx" :> CorruptArchive)

NoSuchFile == [error |-> "ENOENT: no such file or directory"]

\* The beginning of merge: the source as a Document, or the error of opening it.
resolveSource(this, source) ==
  IF source.kind = "self" THEN [sourceDoc |-> this, thrown |-> Null]
  ELSE IF source.kind = "document" THEN [sourceDoc |-> source.document, thrown |-> Null]
  ELSE IF source.kind = "path" /\ ~(source.path \in DOMAIN FileSystem)
    THEN [sourceDoc |-> Null, thrown |-> NoSuchFile]
  ELSE LET data == IF source.kind = "path" THEN FileSystem[source.path] ELSE source.data
       IN IF unzipThrows(data) THEN [sourceDoc |-> Null, thrown |-> MalformedInput]
          ELSE [sourceDoc |-> fromBuffer(data), thrown |-> Null]

(***************************************************************************)
(* State machine.  target is the Document instance under study.  A call    *)
(* that throws leaves it as the operation's definition says (removePage    *)
(* and a merge whose source cannot be opened throw before any assignment). *)
(***************************************************************************)
Init == target = create /\ Alone

Create == target' = create /\ UNCHANGED <<theSource, heap, calls>>

FromBuffer(data) ==
  /\ IF unzipThrows(data) THEN target' = target ELSE target' = fromBuffer(data)
  /\ UNCHANGED <<theSource, heap, calls>>

AddPageBreak ==
  /\ Len(target.bodyElements) < MaxBody
  /\ target' = addPageBreak(target)
  /\ UNCHANGED <<theSource, heap, calls>>

RemovePage(index) ==
  /\ target' = removePage(target, index).doc
  /\ UNCHANGED <<theSource, heap, calls>>

\* Mutant: the dirty flag is set before the source is opened.
mergeFromMarksFirst(this, source, options) ==
  LET resolved == resolveSource(this, source)
  IN IF resolved.thrown # Null
       THEN [doc |-> [this EXCEPT !.dirty = TRUE], thrown |-> resolved.thrown]
       ELSE [doc |-> merge(this, resolved.sourceDoc, options), thrown |-> Null]

\* merge: what it leaves of the document and the error it throws, if any.
mergeFrom(this, source, options) ==
  LET resolved == resolveSource(this, source)
  IN IF resolved.thrown # Null
       THEN [doc |-> this, thrown |-> resolved.thrown]
       ELSE [doc |-> merge(this, resolved.sourceDoc, options), thrown |-> Null]

Merge(source, options) ==
  LET result == mergeFrom(target, source, options)
  IN /\ Len(result.doc.bodyElements) <= MaxBody
     /\ target' = result.doc
     /\ UNCHANGED <<theSource, heap, calls>>

Next ==
  \/ Create
  \/ \E data \in SampleArchives : FromBuffer(data)
  \/ AddPageBreak
  \/ \E index \in -1 .. getPageCount(target) : RemovePage(index)
  \/ \E source \in Sources, options \in MergeOptionsSet : Merge(source, options)

Spec == Init /\ [][Next]_vars

(***************************************************************************)
(* Page operations on any loaded body: the document is loaded from an      *)
(* archive whose body is any sequence of at most MaxLen sample elements.   *)
(***************************************************************************)
PoolElements ==
  {createPageBreakParagraph, TextBreakParagraph, TextParagraph("b"), TableWithBreak,
   LineBreakParagraph}

RECURSIVE SeqsUpTo(_, _)
SeqsUpTo(S, n) ==
  IF n = 0 THEN {<<>>}
  ELSE LET shorter == SeqsUpTo(S, n - 1)
       IN shorter \cup {Append(q, x) : q \in {r \in shorter : Len(r) = n - 1}, x \in S}

ArchiveWithBody(body) ==
  (DocumentPath :> DocumentXml("xmlns:w" :> W_NS,
     <<createElement("w:body", NoAttrs, body \o <<SectPrA4>>)>>))

InitPages ==
  /\ \E body \in SeqsUpTo(PoolElements, MaxLen) : target = fromBuffer(ArchiveWithBody(body))
  /\ Alone

NextPages ==
  \/ AddPageBreak
  \/ \E index \in -1 .. getPageCount(target) : RemovePage(index)

SpecPages == InitPages /\ [][NextPages]_vars

(***************************************************************************)
(* Documents built from create by the mutating operations, saved and       *)
(* loaded again.                                                           *)
(***************************************************************************)
\* fromBuffer(await doc.toBuffer())
reload(doc) == fromBuffer(toBuffer(doc).buffer)

Save == target' = toBuffer(target).doc /\ UNCHANGED <<theSource, heap, calls>>

Reload == target' = reload(target) /\ UNCHANGED <<theSource, heap, calls>>

InitBuilt == target = create /\ Alone

\* The merges of the built documents: the document itself, a created
\* document of two pages, a loaded document and an archive; every page, no
\* page, or the first two pages in reverse order without a break.
BuiltSources ==
  {[kind |-> "self"],
   [kind |-> "document", document |-> WithBreaks(create, 1)],
   [kind |-> "document", document |-> fromBuffer(ArchiveLetter)],
   [kind |-> "buffer", data |-> ArchiveStrict]}

BuiltOptions ==
  {<<>>, [pages |-> <<>>], [pages |-> <<1, 0>>, addPageBreakBefore |-> FALSE]}

NextBuilt ==
  \/ Len(target.bodyElements) < MaxBuiltBody /\ AddPageBreak
  \/ \E index \in -1 .. getPageCount(target) : RemovePage(index)
  \/ \E source \in BuiltSources, options \in BuiltOptions :
       /\ Merge(source, options)
       /\ Len(target'.bodyElements) <= MaxBuiltBody
  \/ Save
  \/ Reload

SpecBuilt == InitBuilt /\ [][NextBuilt]_vars

(***************************************************************************)
(* Loading: packages with a primary part, without one, with a primary part *)
(* whose root is not w:document, and with a document root without a body.  *)
(***************************************************************************)
MaxLoadLen == 3

PartWithRoot(root) == strToU8(WithDeclaration(stringifyXml(<<root>>)))

LoadArchives ==
  LET bodies == SeqsUpTo(PoolElements, MaxLoadLen)
      filled(body) == createElement("w:body", NoAttrs, body \o <<SectPrA4>>)
  IN {ArchiveNoDocument, ArchiveNoBody, ArchiveNoRoot, ArchiveLetter}
       \cup {ArchiveWithBody(body) : body \in bodies}
       \cup {(DocumentPath :> PartWithRoot(createElement("html", NoAttrs, <<filled(body)>>)))
               : body \in bodies}
       \cup {("word/styles.xml" :> Blob("styles-c")) @@
             (DocumentPath :> PartWithRoot(
                createElement("w:document", "xmlns:w" :> W_NS, body \o <<SectPrA4>>)))
               : body \in bodies}

InitLoad == target = create /\ Alone

NextLoad == \E data \in LoadArchives : FromBuffer(data)

SpecLoad == InitLoad /\ [][NextLoad]_vars

(***************************************************************************)
(* One Document instance, created or loaded, then changed and saved in any *)
(* order.                                                                  *)
(***************************************************************************)
LoadedArchives == {ArchiveLetter, ArchiveStrict}

InitSaved ==
  /\ target \in {create} \cup {fromBuffer(data) : data \in LoadedArchives}
  /\ Alone

NextSaved ==
  \/ Len(target.bodyElements) < MaxBuiltBody /\ AddPageBreak
  \/ \E index \in -1 .. getPageCount(target) : RemovePage(index)
  \/ \E source \in BuiltSources, options \in BuiltOptions :
       /\ Merge(source, options)
       /\ Len(target'.bodyElements) <= MaxBuiltBody
  \/ Save

SpecSaved == InitSaved /\ [][NextSaved]_vars

(***************************************************************************)
(* Template substitution (Document.render).  A text that render reads is   *)
(* a sequence of characters, so that a placeholder can be cut anywhere     *)
(* between two runs.  The default pattern is an opening brace, one or more *)
(* identifier characters and a closing brace; of the characters used here  *)
(* only the braces and the space are not identifier characters.            *)
(***************************************************************************)
MaxRuns == 2

OpenBrace == "{"
CloseBrace == "}"

IsIdentifierChar(c) == c \notin {OpenBrace, CloseBrace, " "}

\* The first index from i on that holds no identifier character.
RECURSIVE identifierEnd(_, _)
identifierEnd(text, i) ==
  IF i > Len(text) \/ ~IsIdentifierChar(text[i]) THEN i
  ELSE identifierEnd(text, i + 1)

\* The index of the closing brace of the placeholder that opens at i, or 0.
matchAt(text, i) ==
  IF text[i] # OpenBrace THEN 0
  ELSE LET j == identifierEnd(text, i + 1)
       IN IF j > i + 1 /\ j <= Len(text) /\ text[j] = CloseBrace THEN j ELSE 0

hasPlaceholder(text) == \E i \in 1 .. Len(text) : matchAt(text, i) # 0

removeMissingOf(options) ==
  IF "removeMissing" \in DOMAIN options THEN options.removeMissing ELSE FALSE

\* The text that stands for the placeholder text[i .. j].
replacementOf(text, i, j, data, options) ==
  LET key == SubSeq(text, i + 1, j - 1)
  IN IF key \in DOMAIN data THEN data[key]
     ELSE IF removeMissingOf(options) THEN <<>>
     ELSE SubSeq(text, i, j)

\* Matching from left to right, without overlap and without a second pass
\* over the replacements.
RECURSIVE substituteFrom(_, _, _, _)
substituteFrom(text, i, data, options) ==
  IF i > Len(text) THEN <<>>
  ELSE LET j == matchAt(text, i)
       IN IF j = 0 THEN <<text[i]>> \o substituteFrom(text, i + 1, data, options)
          ELSE replacementOf(text, i, j, data, options)
                 \o substituteFrom(text, j + 1, data, options)

substitute(text, data, options) == substituteFrom(text, 1, data, options)

isTextRun(node) ==
  /\ HasTag(node, "w:r")
  /\ \E k \in 1 .. Len(node.kids) : HasTag(node.kids[k], "w:t")

RECURSIVE concatTexts(_)
concatTexts(nodes) ==
  IF nodes = <<>> THEN <<>>
  ELSE LET node == Head(nodes)
           own == IF HasTag(node, "#text") THEN node.text
                  ELSE IF node.tag \in {"w:r", "w:t"} THEN concatTexts(node.kids)
                  ELSE <<>>
       IN own \o concatTexts(Tail(nodes))

\* The logical string of a paragraph: the texts of its runs, in order.
paragraphText(paragraph) == concatTexts(paragraph.kids)

\* The first text run keeps its formatting and receives the whole text.
consolidatedRun(run, text) ==
  [run EXCEPT !.kids =
     FilterOutTag(run.kids, "w:t")
       \o <<createElement("w:t", NoAttrs, <<createText(text)>>)>>]

RECURSIVE consolidate(_, _, _)
consolidate(children, text, written) ==
  IF children = <<>> THEN <<>>
  ELSE IF ~isTextRun(Head(children))
    THEN <<Head(children)>> \o consolidate(Tail(children), text, written)
  ELSE IF written THEN consolidate(Tail(children), text, written)
  ELSE <<consolidatedRun(Head(children), text)>> \o consolidate(Tail(children), text, TRUE)

\* Mutant: each text leaf is matched on its own.
RECURSIVE renderParagraphPerRun(_, _, _)
renderParagraphPerRun(paragraph, data, options) ==
  IF HasTag(paragraph, "#text")
    THEN [paragraph EXCEPT !.text = substitute(paragraph.text, data, options)]
  ELSE IF "kids" \in DOMAIN paragraph
    THEN [paragraph EXCEPT !.kids =
            [k \in 1 .. Len(paragraph.kids) |->
               renderParagraphPerRun(paragraph.kids[k], data, options)]]
  ELSE paragraph

\* One paragraph: its runs are read as one string, and when a placeholder
\* is found the result is written back as a single text run.
renderParagraph(paragraph, data, options) ==
  LET text == paragraphText(paragraph)
  IN IF ~hasPlaceholder(text) THEN paragraph
     ELSE [paragraph EXCEPT !.kids =
             consolidate(paragraph.kids, substitute(text, data, options), FALSE)]

\* Every paragraph below the node, those of table cells included.
RECURSIVE renderNode(_, _, _)
renderNode(node, data, options) ==
  IF HasTag(node, "w:p") THEN renderParagraph(node, data, options)
  ELSE IF "kids" \in DOMAIN node
    THEN [node EXCEPT !.kids =
            [k \in 1 .. Len(node.kids) |-> renderNode(node.kids[k], data, options)]]
  ELSE node

renderNodes(nodes, data, options) ==
  [k \in 1 .. Len(nodes) |-> renderNode(nodes[k], data, options)]

HeaderType == R_NS \o "/header"
FooterType == R_NS \o "/footer"
StylesType == R_NS \o "/styles"

\* Mutant: only the header relationships are followed.
relatedPartPathsHeaders(files) ==
  IF ~HasText(files, DocumentRelsPath) THEN {}
  ELSE LET parsed == parseXml(readZipText(files, DocumentRelsPath))
           records == getChildren(findElement(parsed, "Relationships"), "Relationships")
       IN {"word/" \o nodeAttrs(records[k]).Target :
             k \in {n \in 1 .. Len(records) :
                      /\ HasTag(records[n], "Relationship")
                      /\ nodeAttrs(records[n]).Type \in {HeaderType}}}

\* The parts that the relationship records of the main document part name
\* as a header or a footer; a target is relative to the word/ folder.
relatedPartPaths(files) ==
  IF ~HasText(files, DocumentRelsPath) THEN {}
  ELSE LET parsed == parseXml(readZipText(files, DocumentRelsPath))
           records == getChildren(findElement(parsed, "Relationships"), "Relationships")
       IN {"word/" \o nodeAttrs(records[k]).Target :
             k \in {n \in 1 .. Len(records) :
                      /\ HasTag(records[n], "Relationship")
                      /\ nodeAttrs(records[n]).Type \in {HeaderType, FooterType}}}

\* A header or footer part after the pass: written again only when touched.
renderPart(files, path, data, options) ==
  LET nodes == parseXml(readZipText(files, path))
      rendered == renderNodes(nodes, data, options)
  IN IF rendered = nodes THEN files[path] ELSE strToU8(stringifyXml(rendered))

render(doc, data, options) ==
  LET paths == {p \in relatedPartPaths(doc.files) : HasText(doc.files, p)}
  IN [doc EXCEPT
        !.bodyElements = renderNodes(doc.bodyElements, data, options),
        !.files = [p \in DOMAIN doc.files |->
                     IF p \in paths THEN renderPart(doc.files, p, data, options)
                     ELSE doc.files[p]],
        !.dirty = TRUE]

(***************************************************************************)
(* Templates: a body paragraph whose text is cut into runs at any place, a *)
(* table whose cell holds a placeholder, a header and a footer part, and   *)
(* the relationship records that name them or not.                         *)
(***************************************************************************)
NameKey == <<"n", "a", "m", "e">>
CityKey == <<"c", "i", "t", "y">>

Placeholder(key) == <<OpenBrace>> \o key \o <<CloseBrace>>

Ivy == <<"I", "v", "y">>
Paris == <<"P", "a", "r", "i", "s">>

TemplateTexts ==
  {Placeholder(NameKey),
   <<"H", "i", " ">> \o Placeholder(NameKey),
   Placeholder(NameKey) \o Placeholder(CityKey),
   <<OpenBrace, "n", "a", " ", "m", "e", CloseBrace>>}

\* The ways of cutting a text into at most n runs, none of them empty.
RECURSIVE Cuts(_, _)
Cuts(text, n) ==
  {<<text>>} \cup
    (IF n <= 1 THEN {}
     ELSE UNION {{<<SubSeq(text, 1, k)>> \o rest :
                    rest \in Cuts(SubSeq(text, k + 1, Len(text)), n - 1)} :
                 k \in 1 .. Len(text) - 1})

RunsParagraph(pieces) ==
  createElement("w:p", NoAttrs,
    [k \in 1 .. Len(pieces) |->
       createElement("w:r", NoAttrs, <<
         createElement("w:t", NoAttrs, <<createText(pieces[k])>>) >>)])

CellTable(paragraph) ==
  createElement("w:tbl", NoAttrs, <<
    createElement("w:tr", NoAttrs, <<
      createElement("w:tc", NoAttrs, <<paragraph>>) >>) >>)

HeaderPath == "word/header1.xml"
FooterPath == "word/footer1.xml"

HeaderParagraph == RunsParagraph(<< <<"T", "o", "p", " ">>, Placeholder(NameKey) >>)
FooterParagraph == RunsParagraph(<< <<"E", "n", "d", " ">>, Placeholder(CityKey) >>)

PartXml(tagName, children) ==
  strToU8(WithDeclaration(stringifyXml(<<
    createElement(tagName, "xmlns:w" :> W_NS, children) >>)))

Relationship(id, type, partTarget) ==
  createElement("Relationship",
    ("Id" :> id) @@ ("Type" :> type) @@ ("Target" :> partTarget), <<>>)

RelsXml(records) ==
  strToU8(WithDeclaration(stringifyXml(<<
    createElement("Relationships", "xmlns" :> PKG_NS, records) >>)))

\* Header and footer both named; the header named next to the styles part;
\* no relationship part at all.
RelationshipLists ==
  {<<Relationship("rId1", HeaderType, "header1.xml"),
     Relationship("rId2", FooterType, "footer1.xml")>>,
   <<Relationship("rId1", StylesType, "styles.xml"),
     Relationship("rId2", HeaderType, "header1.xml")>>}

TemplateParts(pieces) ==
  (DocumentPath :> DocumentXml("xmlns:w" :> W_NS,
     <<createElement("w:body", NoAttrs,
         <<RunsParagraph(pieces), CellTable(RunsParagraph(<<Placeholder(CityKey)>>)),
           SectPrA4>>)>>)) @@
  ("word/styles.xml" :> Blob("styles-t")) @@
  (HeaderPath :> PartXml("w:hdr", <<HeaderParagraph>>)) @@
  (FooterPath :> PartXml("w:ftr", <<FooterParagraph>>))

TemplateArchives ==
  LET bodies == UNION {Cuts(text, MaxRuns) : text \in TemplateTexts}
  IN {TemplateParts(pieces) : pieces \in bodies}
       \cup {(DocumentRelsPath :> RelsXml(records)) @@ TemplateParts(pieces) :
               pieces \in bodies, records \in RelationshipLists}

DataMaps ==
  {EmptyMap, (NameKey :> Ivy), (CityKey :> Paris), (NameKey :> Ivy) @@ (CityKey :> Paris)}

RenderOptions == {<<>>, [removeMissing |-> TRUE]}

Render(data, options) ==
  /\ target' = render(target, data, options)
  /\ UNCHANGED <<theSource, heap, calls>>

InitRender ==
  /\ \E archive \in TemplateArchives : target = fromBuffer(archive)
  /\ Alone

NextRender ==
  \/ \E data \in DataMaps, options \in RenderOptions : Render(data, options)
  \/ Save
  \/ Reload

SpecRender == InitRender /\ [][NextRender]_vars

(***************************************************************************)
(* Two documents side by side.  Every node is an object of its own: it     *)
(* carries the number it was allocated with ("id").  The _bodyElements     *)
(* field of a Document is a reference to an array of the heap, which push  *)
(* and splice change in place; no operation writes into a node.            *)
(***************************************************************************)
MaxNodes == 28
MaxSharedBody == 2

RECURSIVE nodesCount(_)
nodeCount(node) == IF "kids" \in DOMAIN node THEN 1 + nodesCount(node.kids) ELSE 1

nodesCount(nodes) ==
  IF nodes = <<>> THEN 0 ELSE nodeCount(Head(nodes)) + nodesCount(Tail(nodes))

\* The objects of a tree that is built at base: the node, then its children.
RECURSIVE allocNode(_, _)
allocNode(node, base) ==
  LET placed(k) == base + 1 + nodesCount(SubSeq(node.kids, 1, k - 1))
  IN [f \in DOMAIN node \cup {"id"} |->
        IF f = "id" THEN base
        ELSE IF f = "kids"
          THEN [k \in 1 .. Len(node.kids) |-> allocNode(node.kids[k], placed(k))]
        ELSE node[f]]

allocNodes(nodes, base) ==
  [k \in 1 .. Len(nodes) |-> allocNode(nodes[k], base + nodesCount(SubSeq(nodes, 1, k - 1)))]

\* Mutant: the nodes that another document holds are taken as they are.
cloneNodesAtShared(nodes, base) ==
  [k \in 1 .. Len(nodes) |->
     IF "id" \in DOMAIN nodes[k] THEN nodes[k]
     ELSE allocNode(nodes[k], base + nodesCount(SubSeq(nodes, 1, k - 1)))]

\* JSON.parse(JSON.stringify(nodes)): every node of the copy is a new object.
cloneNodesAt(nodes, base) == allocNodes(cloneNodes(nodes), base)

\* The document as its methods read it: the array in place of the reference.
view(h, doc) == [doc EXCEPT !.bodyElements = h.arrays[doc.bodyElements]]

\* The document with its array reference again, and the array written.
stored(h, doc, after, next) ==
  [heap |-> [arrays |-> [h.arrays EXCEPT ![doc.bodyElements] = after.bodyElements],
             next |-> next],
   doc |-> [after EXCEPT !.bodyElements = doc.bodyElements]]

\* Document.fromBuffer or Document.create: a new Document with a new array.
loadedAt(h, data) ==
  LET doc == IF data = Null THEN create ELSE fromBuffer(data)
      body == allocNodes(doc.bodyElements, h.next)
      afterBody == h.next + nodesCount(body)
      sectPr == IF doc.sectPr = Null THEN Null ELSE allocNode(doc.sectPr, afterBody)
      next == IF doc.sectPr = Null THEN afterBody ELSE afterBody + nodeCount(sectPr)
  IN [heap |-> [arrays |-> Append(h.arrays, body), next |-> next],
      doc |-> [doc EXCEPT !.bodyElements = Len(h.arrays) + 1, !.sectPr = sectPr]]

\* addPageBreak: the paragraph, its run and its break are new objects.
addPageBreakAt(h, doc) ==
  LET before == view(h, doc)
      after == addPageBreak(before)
      kept == Len(before.bodyElements)
      pushed == allocNodes(SubSeq(after.bodyElements, kept + 1, Len(after.bodyElements)),
                           h.next)
  IN stored(h, doc,
            [after EXCEPT !.bodyElements = SubSeq(after.bodyElements, 1, kept) \o pushed],
            h.next + nodesCount(pushed))

\* removePage: splice takes elements out of the array and builds nothing.
removePageAt(h, doc, index) == stored(h, doc, removePage(view(h, doc), index).doc, h.next)

\* merge: the elements pushed are a new break paragraph and the copies of
\* the source elements; the section properties taken over are a copy too.
mergeAt(h, doc, sourceDoc, options) ==
  LET before == view(h, doc)
      after == merge(before, view(h, sourceDoc), options)
      kept == Len(before.bodyElements)
      pushed == cloneNodesAt(SubSeq(after.bodyElements, kept + 1, Len(after.bodyElements)),
                             h.next)
      afterBody == h.next + nodesCount(pushed)
      adopted == after.sectPr # before.sectPr
      sectPr == IF adopted THEN cloneNodesAt(<<after.sectPr>>, afterBody)[1]
                ELSE after.sectPr
      next == IF adopted THEN afterBody + nodeCount(sectPr) ELSE afterBody
  IN stored(h, doc,
            [after EXCEPT !.bodyElements = SubSeq(after.bodyElements, 1, kept) \o pushed,
                          !.sectPr = sectPr],
            next)

\* The two documents at the start: the target is created or loaded, the
\* source is loaded.
TargetArchives == {Null, ArchiveStrict}
SourceArchives == {ArchiveLetter}

InitShared ==
  \E targetData \in TargetArchives, sourceData \in SourceArchives :
    LET first == loadedAt(NoHeap, targetData)
        second == loadedAt(first.heap, sourceData)
    IN /\ target = first.doc
       /\ theSource = second.doc
       /\ heap = second.heap
       /\ calls = <<>>

SharedOptions == {<<>>, [pages |-> <<1, 0>>, addPageBreakBefore |-> FALSE]}

Fits(result) ==
  /\ result.heap.next <= MaxNodes
  /\ \A ref \in 1 .. Len(result.heap.arrays) : Len(result.heap.arrays[ref]) <= MaxSharedBody

TargetAddPageBreak ==
  LET result == addPageBreakAt(heap, target)
  IN Fits(result) /\ target' = result.doc /\ heap' = result.heap /\ UNCHANGED <<theSource, calls>>

SourceAddPageBreak ==
  LET result == addPageBreakAt(heap, theSource)
  IN Fits(result) /\ theSource' = result.doc /\ heap' = result.heap /\ UNCHANGED <<target, calls>>

TargetRemovePage(index) ==
  LET result == removePageAt(heap, target, index)
  IN target' = result.doc /\ heap' = result.heap /\ UNCHANGED <<theSource, calls>>

SourceRemovePage(index) ==
  LET result == removePageAt(heap, theSource, index)
  IN theSource' = result.doc /\ heap' = result.heap /\ UNCHANGED <<target, calls>>

\* target.merge(theSource, options)
TargetMerge(options) ==
  LET result == mergeAt(heap, target, theSource, options)
  IN Fits(result) /\ target' = result.doc /\ heap' = result.heap /\ UNCHANGED <<theSource, calls>>

\* theSource.merge(target, options)
SourceMerge(options) ==
  LET result == mergeAt(heap, theSource, target, options)
  IN Fits(result) /\ theSource' = result.doc /\ heap' = result.heap /\ UNCHANGED <<target, calls>>

NextShared ==
  \/ TargetAddPageBreak
  \/ SourceAddPageBreak
  \/ \E index \in -1 .. getPageCount(view(heap, target)) : TargetRemovePage(index)
  \/ \E index \in -1 .. getPageCount(view(heap, theSource)) : SourceRemovePage(index)
  \/ \E options \in SharedOptions : TargetMerge(options)
  \/ \E options \in SharedOptions : SourceMerge(options)

SpecShared == InitShared /\ [][NextShared]_vars

(***************************************************************************)
(* Merge calls that are started without being awaited.  An async function  *)
(* runs without interruption from its call to its first await and from one *)
(* await to the next; merge awaits only Document.fromFile and              *)
(* Document.fromBuffer, so a call with a path or a buffer is suspended     *)
(* once, before its source is known, and a call with a Document not at     *)
(* all.  What follows the source is listed as the turns that run it.       *)
(***************************************************************************)
MaxCalls == 3

\* From the dirty flag to the break before the merged content.
mergeHead(doc, sourceDoc, options) ==
  LET marked == [doc EXCEPT !.dirty = TRUE,
                            !.namespaces = mergeNamespaces(@, sourceDoc.namespaces)]
      isFirstMerge == isFirstMergeOf(marked)
      seeded == IF isFirstMerge THEN copyDocumentStructure(marked, sourceDoc) ELSE marked
      pagesToMerge == pagesToMergeOf(getPages(sourceDoc), options)
      addPageBreakBefore == addPageBreakBeforeOf(options)
  IN IF Len(pagesToMerge) = 0 THEN seeded
     ELSE IF addPageBreakBefore /\ Len(seeded.bodyElements) > 0
       THEN [seeded EXCEPT !.bodyElements = Append(@, createPageBreakParagraph)]
     ELSE seeded

\* The loop over the selected pages.
mergePages(doc, sourceDoc, options) ==
  LET pagesToMerge == pagesToMergeOf(getPages(sourceDoc), options)
  IN IF Len(pagesToMerge) = 0 THEN doc
     ELSE [doc EXCEPT !.bodyElements = appendPages(@, pagesToMerge, sourceDoc.bodyElements)]

RECURSIVE runTurn(_, _, _, _)
runTurn(regions, doc, sourceDoc, options) ==
  IF regions = <<>> THEN doc
  ELSE runTurn(Tail(regions),
               IF Head(regions) = "head" THEN mergeHead(doc, sourceDoc, options)
               ELSE mergePages(doc, sourceDoc, options),
               sourceDoc, options)

\* Mutant: the call is suspended between the break and the pages.
mergeTurnsAwaitingPages == << <<"head">>, <<"pages">> >>

\* No await after the source: one turn runs the head and the pages.
mergeTurns == << <<"head", "pages">> >>

ConcurrentSources ==
  {[kind |-> "document", document |-> fromBuffer(ArchiveLetter)],
   [kind |-> "buffer", data |-> ArchiveStrict],
   [kind |-> "path", path |-> "letter.docx"],
   [kind |-> "buffer", data |-> CorruptArchive]}

ConcurrentOptions == {<<>>, [addPageBreakBefore |-> FALSE]}

Call(source, options, sourceDoc, turns, thrown) ==
  [source |-> source, options |-> options, sourceDoc |-> sourceDoc, turns |-> turns,
   thrown |-> thrown]

\* target.merge(source, options), not awaited: with a Document the first
\* turn runs within the call, otherwise the call waits for its source.
StartMerge(source, options) ==
  /\ Len(calls) < MaxCalls
  /\ IF source.kind = "document"
       THEN /\ target' = runTurn(Head(mergeTurns), target, source.document, options)
            /\ calls' = Append(calls, Call(source, options, source.document,
                                           Tail(mergeTurns), Null))
       ELSE /\ target' = target
            /\ calls' = Append(calls, Call(source, options, Null, mergeTurns, Null))
  /\ UNCHANGED <<theSource, heap>>

\* The call c goes on: its source arrives, or fails to, or its next turn runs.
ResumeMerge(c) ==
  LET call == calls[c]
      resolved == resolveSource(target, call.source)
      sourceDoc == IF call.sourceDoc = Null THEN resolved.sourceDoc ELSE call.sourceDoc
  IN /\ call.thrown = Null
     /\ call.turns # <<>>
     /\ IF call.sourceDoc = Null /\ resolved.thrown # Null
          THEN /\ target' = target
               /\ calls' = [calls EXCEPT ![c] =
                              Call(call.source, call.options, Null, <<>>, resolved.thrown)]
          ELSE /\ target' = runTurn(Head(call.turns), target, sourceDoc, call.options)
               /\ calls' = [calls EXCEPT ![c] =
                              Call(call.source, call.options, sourceDoc, Tail(call.turns),
                                   Null)]
     /\ UNCHANGED <<theSource, heap>>

InitConcurrent == target = create /\ theSource = Null /\ heap = NoHeap /\ calls = <<>>

NextConcurrent ==
  \/ \E source \in ConcurrentSources, options \in ConcurrentOptions : StartMerge(source, options)
  \/ \E c \in 1 .. Len(calls) : ResumeMerge(c)

SpecConcurrent == InitConcurrent /\ [][NextConcurrent]_vars

(***************************************************************************)
(* Properties.  The break-bearing elements are named here independently of *)
(* the program's own test: among the sample elements, the paragraphs with  *)
(* a page-type break in one of their runs.                                 *)
(***************************************************************************)
BreakBearingElements == {createPageBreakParagraph, TextBreakParagraph}

BreakBearing(element) == element \in BreakBearingElements

BreakPositions(bodyElements) ==
  {i \in 1 .. Len(bodyElements) : BreakBearing(bodyElements[i])}

BreakCount(bodyElements) == Cardinality(BreakPositions(bodyElements))

IsSentinel(page) == page.startElement = -1 /\ page.endElement = -1

\* C1: the page count is always 1 plus the number of break-bearing body
\* elements, so it is at least 1, a document of exactly N page breaks has
\* N + 1 pages, and addPageBreak raises the count by exactly 1.
PageCountIsBreaksPlusOne ==
  /\ getPageCount(target) = 1 + BreakCount(target.bodyElements)
  /\ getPageCount(target) >= 1
  /\ (\A i \in 1 .. Len(target.bodyElements) :
        target.bodyElements[i] = createPageBreakParagraph)
       => getPageCount(target) = Len(target.bodyElements) + 1
  /\ getPageCount(addPageBreak(target)) = getPageCount(target) + 1

\* A document with content and three pages, whose last element is a break
\* that addPageBreak appended.
PageCountWitness ==
  /\ Len(target.bodyElements) = 3
  /\ getPageCount(target) = 3
  /\ ~BreakBearing(target.bodyElements[1])
  /\ target.bodyElements[3] = createPageBreakParagraph
  /\ target.dirty

\* C2: getPages returns one entry per break plus one, indexed 0..k in order;
\* the ranges of the entries with content are contiguous, do not overlap and
\* cover exactly the body; each of the first k pages ends at its break; the
\* last entry is the sentinel (-1,-1) exactly when the body is empty or ends
\* in a break, and no other entry is a sentinel.
PagesPartitionBody ==
  LET body == target.bodyElements
      n == Len(body)
      pages == getPages(target)
      k == BreakCount(body)
      withContent == {j \in 1 .. Len(pages) : ~IsSentinel(pages[j])}
  IN /\ Len(pages) = k + 1
     /\ \A j \in 1 .. Len(pages) : pages[j].index = j - 1
     /\ \A j \in withContent :
          /\ 0 <= pages[j].startElement
          /\ pages[j].startElement <= pages[j].endElement
          /\ pages[j].endElement <= n - 1
          /\ pages[j].startElement = IF j = 1 THEN 0 ELSE pages[j - 1].endElement + 1
     /\ \A e \in 0 .. n - 1 :
          Cardinality({j \in withContent :
                         pages[j].startElement <= e /\ e <= pages[j].endElement}) = 1
     /\ \A j \in 1 .. k :
          /\ j \in withContent
          /\ pages[j].endElement + 1 \in BreakPositions(body)
          /\ Cardinality({b \in BreakPositions(body) : b <= pages[j].endElement + 1}) = j
     /\ IsSentinel(pages[Len(pages)]) <=> (n = 0 \/ BreakBearing(body[n]))
     /\ \A j \in 1 .. Len(pages) - 1 : j \in withContent

\* A body of four elements with breaks at the second and third and content
\* after the last break: three pages, none a sentinel.
PagesPartitionWitness ==
  /\ Len(target.bodyElements) = 4
  /\ BreakPositions(target.bodyElements) = {2, 3}
  /\ getPages(target) = <<PageInfo(0, 0, 1), PageInfo(1, 2, 2), PageInfo(2, 3, 3)>>

LastIsBreak(bodyElements) ==
  Len(bodyElements) > 0 /\ BreakBearing(bodyElements[Len(bodyElements)])

\* C3: removePage with any valid index lowers the page count by exactly 1;
\* stated for documents of two or more pages, the single page of a document
\* being the case of C5.
RemoveAlwaysLowersCount ==
  getPageCount(target) >= 2 =>
    \A index \in 0 .. getPageCount(target) - 1 :
      getPageCount(removePage(target, index).doc) = getPageCount(target) - 1

\* C3, what removePage does: it lowers the page count by exactly 1 when the
\* page ends in a break or is the empty page after a final break; when it is
\* the last page and the body does not end in a break, the break before the
\* page stays and the count is unchanged.
RemoveLowersCountUnlessLastContent ==
  \A index \in 0 .. getPageCount(target) - 1 :
    LET count == getPageCount(target)
        result == removePage(target, index)
    IN /\ result.thrown = Null
       /\ getPageCount(result.doc) =
            IF index < count - 1 \/ LastIsBreak(target.bodyElements)
              THEN count - 1 ELSE count

\* Three pages, the last one with content: removing the first page lowers
\* the count, removing the last one does not.
RemoveCountWitness ==
  /\ getPageCount(target) = 3
  /\ ~LastIsBreak(target.bodyElements)
  /\ getPageCount(removePage(target, 0).doc) = 2
  /\ getPageCount(removePage(target, 2).doc) = 3

\* C4: removePage with an index below 0 or not below the page count throws
\* an error that states the index and the page count, and leaves every field
\* of the document, the dirty flag included, as it was.
RemoveOutOfBoundsThrows ==
  LET count == getPageCount(target)
  IN \A index \in {-2, -1, count, count + 1} :
       LET result == removePage(target, index)
       IN /\ result.thrown # Null
          /\ result.thrown.error[2] = index
          /\ result.thrown.error[4] = count
          /\ result.doc = target
          /\ result.doc.dirty = target.dirty

\* A loaded, unmodified document with content, on which both a negative
\* index and the page count itself are refused.
RemoveOutOfBoundsWitness ==
  /\ ~target.dirty
  /\ Len(target.bodyElements) = 2
  /\ removePage(target, -1).thrown # Null
  /\ removePage(target, getPageCount(target)).thrown # Null

\* C5: on a document without any break-bearing element, with or without
\* content, removePage(0) succeeds and leaves no body element and one page.
RemoveOnlyPageEmpties ==
  BreakCount(target.bodyElements) = 0 =>
    LET result == removePage(target, 0)
    IN /\ result.thrown = Null
       /\ result.doc.bodyElements = <<>>
       /\ getPageCount(result.doc) = 1

\* A single page of two elements, emptied by removePage(0).
RemoveOnlyPageWitness ==
  /\ Len(target.bodyElements) = 2
  /\ BreakCount(target.bodyElements) = 0
  /\ getPageCount(target) = 1
  /\ removePage(target, 0).doc.bodyElements = <<>>

(***************************************************************************)
(* What a merge is expected to append, computed from the positions of the  *)
(* break-bearing elements of the source body and not from getPages.        *)
(***************************************************************************)
NthBreak(bodyElements, m) ==
  CHOOSE b \in BreakPositions(bodyElements) :
    Cardinality({c \in BreakPositions(bodyElements) : c <= b}) = m

\* The elements of page j (0-based): after the j-th break, up to and
\* including the next one, or to the end of the body.
PageElements(bodyElements, j) ==
  LET first == IF j = 0 THEN 1 ELSE NthBreak(bodyElements, j) + 1
      last == IF j < BreakCount(bodyElements)
                THEN NthBreak(bodyElements, j + 1) ELSE Len(bodyElements)
  IN SubSeq(bodyElements, first, last)

ResolvedPages(bodyElements, options) ==
  IF "pages" \in DOMAIN options
    THEN SelectSeq(options.pages, LAMBDA j : j \in 0 .. BreakCount(bodyElements))
    ELSE [j \in 1 .. BreakCount(bodyElements) + 1 |-> j - 1]

RECURSIVE RequestedElements(_, _)
RequestedElements(bodyElements, requested) ==
  IF requested = <<>> THEN <<>>
  ELSE PageElements(bodyElements, Head(requested))
         \o RequestedElements(bodyElements, Tail(requested))

ExpectedElements(bodyElements, options) ==
  RequestedElements(bodyElements, ResolvedPages(bodyElements, options))

OpenableSources == {source \in Sources : resolveSource(target, source).thrown = Null}

SourceBody(source) == resolveSource(target, source).sourceDoc.bodyElements

\* pages given or omitted, with the break left to its default or declined.
PagesOptions ==
  {options \in MergeOptionsSet :
     "addPageBreakBefore" \in DOMAIN options => options.addPageBreakBefore = FALSE}

\* C6: what merge appends after the optional break is the concatenation, in
\* the order of the caller's list, of the source ranges of the requested
\* indices that are in range; out-of-range indices are dropped without an
\* error, empty pages add nothing, the target's previous elements stay as a
\* prefix, and with pages omitted the whole source body is appended.
MergeAppendsRequestedPages ==
  \A source \in OpenableSources :
    LET pre == target.bodyElements
        sourceBody == SourceBody(source)
    IN \A options \in PagesOptions :
         LET result == mergeFrom(target, source, options)
             post == result.doc.bodyElements
             expected == ExpectedElements(sourceBody, options)
         IN /\ result.thrown = Null
            /\ Len(post) >= Len(pre)
            /\ SubSeq(post, 1, Len(pre)) = pre
            /\ post \in {pre \o expected, pre \o <<createPageBreakParagraph>> \o expected}
            /\ ~("pages" \in DOMAIN options) =>
                 post \in {pre \o sourceBody,
                           pre \o <<createPageBreakParagraph>> \o sourceBody}

\* The second page of the loaded source, then its first page, merged into
\* an empty target by pages <<1, 0>>.
MergeOrderWitness ==
  /\ target.bodyElements = <<TableWithBreak, TextBreakParagraph>>
  /\ target.dirty
  /\ fromBuffer(ArchiveLetter).bodyElements = <<TextBreakParagraph, TableWithBreak>>

\* C7: when no requested index is in range, merge raises no error and leaves
\* the body elements and the page count as they were, whatever
\* addPageBreakBefore is.
MergeOfNoPagesKeepsBody ==
  \A source \in OpenableSources :
    LET sourceBody == SourceBody(source)
    IN \A options \in MergeOptionsSet :
         ResolvedPages(sourceBody, options) = <<>> =>
           LET result == mergeFrom(target, source, options)
           IN /\ result.thrown = Null
              /\ result.doc.bodyElements = target.bodyElements
              /\ getPageCount(result.doc) = getPageCount(target)

\* A target of two pages on which a merge of an out-of-range page, break
\* requested, changes nothing in the body.
MergeOfNoPagesWitness ==
  LET result == mergeFrom(target, [kind |-> "self"],
                          [pages |-> <<-1>>, addPageBreakBefore |-> TRUE])
  IN /\ Len(target.bodyElements) = 2
     /\ getPageCount(target) = 2
     /\ result.thrown = Null
     /\ result.doc.bodyElements = target.bodyElements

BreakRequested(options) ==
  ~("addPageBreakBefore" \in DOMAIN options) \/ options.addPageBreakBefore = TRUE

\* C8 as stated: one break right before the merged content when
\* addPageBreakBefore is true or omitted and the target has body elements;
\* no break otherwise.
MergeBreakWheneverRequested ==
  \A source \in OpenableSources :
    LET pre == target.bodyElements
        sourceBody == SourceBody(source)
    IN \A options \in MergeOptionsSet :
         LET post == mergeFrom(target, source, options).doc.bodyElements
             expected == ExpectedElements(sourceBody, options)
         IN IF BreakRequested(options) /\ Len(pre) > 0
              THEN post = pre \o <<createPageBreakParagraph>> \o expected
              ELSE post = pre \o expected

\* C8 amended: one break right before the merged content when
\* addPageBreakBefore is true or omitted, the target has body elements and
\* at least one requested page is in range; no break otherwise.
MergeBreakWhenPagesResolved ==
  \A source \in OpenableSources :
    LET pre == target.bodyElements
        sourceBody == SourceBody(source)
    IN \A options \in MergeOptionsSet :
         LET post == mergeFrom(target, source, options).doc.bodyElements
             expected == ExpectedElements(sourceBody, options)
         IN IF /\ BreakRequested(options)
               /\ Len(pre) > 0
               /\ ResolvedPages(sourceBody, options) # <<>>
              THEN post = pre \o <<createPageBreakParagraph>> \o expected
              ELSE post = pre \o expected

\* A target holding one paragraph, the break of a default merge, and the
\* first page of the loaded source.
MergeBreakWitness ==
  /\ target.bodyElements =
       <<TextParagraph("b"), createPageBreakParagraph, TextBreakParagraph>>
  /\ getPageCount(target) = 3

ThreePageBody ==
  <<TextParagraph("a"), createPageBreakParagraph, TextBreakParagraph, TextParagraph("b")>>

ThreePageSources ==
  {[kind |-> "document", document |-> WithBreaks(create, 2)],
   [kind |-> "document", document |-> fromBuffer(ArchiveWithBody(ThreePageBody))],
   [kind |-> "buffer", data |-> ArchiveWithBody(ThreePageBody)]}

OnePageWithContent(doc) ==
  Len(doc.bodyElements) > 0 /\ BreakCount(doc.bodyElements) = 0

\* C9 as stated: a target of one page with content, merged with a source of
\* three pages under the default options, ends with exactly 5 pages.
MergeThreePagesGivesFive ==
  OnePageWithContent(target) =>
    \A source \in ThreePageSources :
      getPageCount(mergeFrom(target, source, <<>>).doc) = 5

\* C9 amended: a target of one page with content, merged with a source of
\* three pages under the default options, ends with exactly 4 pages: the
\* break before the merged content and the two breaks of the source.
MergeThreePagesGivesFour ==
  OnePageWithContent(target) =>
    \A source \in ThreePageSources :
      LET sourceDoc == resolveSource(target, source).sourceDoc
          result == mergeFrom(target, source, <<>>)
      IN /\ getPageCount(sourceDoc) = 3
         /\ BreakCount(sourceDoc.bodyElements) = 2
         /\ result.thrown = Null
         /\ getPageCount(result.doc) = 4
         /\ BreakCount(result.doc.bodyElements) = 3

\* A loaded target of one paragraph that the merge of three pages turns
\* into four pages.
MergeThreePagesWitness ==
  /\ target.bodyElements = <<TextParagraph("b")>>
  /\ getPageCount(target) = 1
  /\ getPageCount(mergeFrom(target, [kind |-> "document",
                                     document |-> WithBreaks(create, 2)], <<>>).doc) = 4

NamespaceOptions == {<<>>, [pages |-> <<>>]}

\* The value of key in the first of the documents that declares it.
RECURSIVE FirstDeclared(_, _)
FirstDeclared(key, declarations) ==
  IF key \in DOMAIN Head(declarations) THEN Head(declarations)[key]
  ELSE FirstDeclared(key, Tail(declarations))

\* C10: over two merges in a row, every key the target had keeps its value,
\* every key only a source had is added with that source's value, no key is
\* removed, and each key maps to the value of the first document that
\* declared it.
NamespacesFirstWriterWins ==
  \A first \in OpenableSources, second \in Sources, options \in NamespaceOptions :
    LET firstDoc == resolveSource(target, first).sourceDoc
        afterFirst == mergeFrom(target, first, options).doc
        secondResolved == resolveSource(afterFirst, second)
    IN /\ DOMAIN afterFirst.namespaces =
            DOMAIN target.namespaces \cup DOMAIN firstDoc.namespaces
       /\ \A key \in DOMAIN target.namespaces :
            afterFirst.namespaces[key] = target.namespaces[key]
       /\ \A key \in DOMAIN firstDoc.namespaces \ DOMAIN target.namespaces :
            afterFirst.namespaces[key] = firstDoc.namespaces[key]
       /\ secondResolved.thrown = Null =>
            LET secondDoc == secondResolved.sourceDoc
                afterSecond == mergeFrom(afterFirst, second, options).doc
                declarations == <<target.namespaces, firstDoc.namespaces,
                                  secondDoc.namespaces>>
            IN /\ DOMAIN afterSecond.namespaces =
                    DOMAIN afterFirst.namespaces \cup DOMAIN secondDoc.namespaces
               /\ \A key \in DOMAIN afterSecond.namespaces :
                    afterSecond.namespaces[key] = FirstDeclared(key, declarations)

\* A target whose declarations come from the transitional archive, with the
\* relationships prefix added by a merge of the strict archive, which
\* declares the w prefix differently.
NamespacesWitness ==
  /\ "xmlns:w" \in DOMAIN target.namespaces
  /\ target.namespaces["xmlns:w"] = W_NS
  /\ "xmlns:w14" \in DOMAIN target.namespaces
  /\ "xmlns:r" \in DOMAIN target.namespaces
  /\ fromBuffer(ArchiveStrict).namespaces["xmlns:w"] = STRICT_NS

(***************************************************************************)
(* Structure copy, failure of the source, packages.                        *)
(***************************************************************************)
Pristine(doc) == Len(doc.bodyElements) = 0 /\ DOMAIN doc.files = {}

\* pages omitted or given, the break left to its default.
SelectionOptions == {<<>>} \cup {[pages |-> L] : L \in PagesArgs}

\* C11: a merge into a target without body elements and without parts,
\* whatever the pages selected, gives the target the source's section
\* properties when it has none and every part of the source at the same
\* path with the same content, word/document.xml excepted; a merge into any
\* other target changes neither its parts nor its section properties.
FirstMergeCopiesStructure ==
  \A source \in OpenableSources :
    LET sourceDoc == resolveSource(target, source).sourceDoc
    IN \A options \in SelectionOptions :
         LET after == mergeFrom(target, source, options).doc
         IN IF Pristine(target)
              THEN /\ after.sectPr = IF target.sectPr = Null THEN sourceDoc.sectPr
                                     ELSE target.sectPr
                   /\ DOMAIN after.files = DOMAIN sourceDoc.files \ {DocumentPath}
                   /\ \A path \in DOMAIN after.files :
                        after.files[path] = sourceDoc.files[path]
              ELSE /\ after.files = target.files
                   /\ after.sectPr = target.sectPr

\* A target that took the parts and the section properties of the loaded
\* source in a merge that selected no page.
FirstMergeWitness ==
  /\ target.bodyElements = <<>>
  /\ DOMAIN target.files = {ContentTypesPath, RootRelsPath, "word/styles.xml"}
  /\ target.files["word/styles.xml"] = Blob("styles-a")
  /\ target.sectPr = SectPrA4
  /\ target.dirty

StructureOptions == {<<>>, [pages |-> <<>>]}

\* C12 as stated: once a merge on a target has completed, a later merge
\* leaves the target's parts and section properties unchanged, for every
\* pair of sources.
LaterMergeKeepsStructure ==
  \A first \in OpenableSources, options \in StructureOptions :
    LET afterFirst == mergeFrom(target, first, options).doc
    IN \A second \in Sources :
         LET later == mergeFrom(afterFirst, second, options)
         IN later.thrown = Null =>
              /\ later.doc.files = afterFirst.files
              /\ later.doc.sectPr = afterFirst.sectPr

\* C12 amended: once a merge has left the target with a body element or a
\* part, a later merge leaves the target's parts and section properties
\* unchanged, for every pair of sources.
LaterMergeKeepsStructureUnlessPristine ==
  \A first \in OpenableSources, options \in StructureOptions :
    LET afterFirst == mergeFrom(target, first, options).doc
    IN \A second \in Sources :
         LET later == mergeFrom(afterFirst, second, options)
         IN (later.thrown = Null /\ ~Pristine(afterFirst)) =>
              /\ later.doc.files = afterFirst.files
              /\ later.doc.sectPr = afterFirst.sectPr

\* A created target that takes the parts of the loaded source in a first
\* merge, and keeps exactly these in the merge of the strict archive that
\* follows, which comes with a header part.
LaterMergeWitness ==
  LET letter == [kind |-> "document", document |-> fromBuffer(ArchiveLetter)]
      strict == [kind |-> "buffer", data |-> ArchiveStrict]
      afterFirst == mergeFrom(target, letter, [pages |-> <<>>]).doc
      later == mergeFrom(afterFirst, strict, <<>>).doc
  IN /\ Pristine(target)
     /\ ~Pristine(afterFirst)
     /\ later.files = afterFirst.files
     /\ ~("word/header1.xml" \in DOMAIN later.files)
     /\ later.sectPr = SectPrA4

FailingSources ==
  {[kind |-> "buffer", data |-> CorruptArchive],
   [kind |-> "path", path |-> "missing.docx"],
   [kind |-> "path", path |-> "broken.docx"]}

\* C14: when the source of a merge cannot be opened, merge throws and every
\* field of the target, the dirty flag included, is as before.
MergeSourceFailureKeepsTarget ==
  \A source \in FailingSources, options \in SelectionOptions :
    LET result == mergeFrom(target, source, options)
    IN /\ result.thrown # Null
       /\ result.doc.bodyElements = target.bodyElements
       /\ result.doc.namespaces = target.namespaces
       /\ result.doc.sectPr = target.sectPr
       /\ result.doc.files = target.files
       /\ result.doc.dirty = target.dirty

\* A loaded, unmodified target with content, on which the merge of bytes
\* that are no archive and of a missing file both throw.
MergeSourceFailureWitness ==
  /\ ~target.dirty
  /\ Len(target.bodyElements) = 2
  /\ mergeFrom(target, [kind |-> "buffer", data |-> CorruptArchive], <<>>).thrown
       = MalformedInput
  /\ mergeFrom(target, [kind |-> "path", path |-> "missing.docx"], <<>>).thrown
       = NoSuchFile

BasicParts == {ContentTypesPath, RootRelsPath, DocumentPath, DocumentRelsPath}

\* C17 as stated: the package written by toBuffer holds the four basic
\* parts, for any document.
PackageHasBasicParts ==
  BasicParts \subseteq DOMAIN toBuffer(target).buffer

\* C17 amended: the package written by toBuffer holds the four basic parts
\* when the document is dirty or has no part; for a loaded document that
\* was never modified the package holds exactly the parts it was loaded
\* with.
PackageHasBasicPartsWhenRegenerated ==
  LET buffer == toBuffer(target).buffer
  IN IF target.dirty \/ DOMAIN target.files = {}
       THEN /\ BasicParts \subseteq DOMAIN buffer
            /\ \A path \in DOMAIN target.files \ {DocumentPath} :
                 path \in DOMAIN buffer /\ buffer[path] = target.files[path]
       ELSE buffer = target.files

\* A modified target loaded from an archive without content types or
\* relationships, whose package has them next to the header it came with.
PackageWitness ==
  /\ target.dirty
  /\ ~(ContentTypesPath \in DOMAIN target.files)
  /\ "word/header1.xml" \in DOMAIN target.files
  /\ BasicParts \cup {"word/header1.xml"} \subseteq DOMAIN toBuffer(target).buffer

NoBreakOptions ==
  {[addPageBreakBefore |-> FALSE]}
    \cup {[pages |-> L, addPageBreakBefore |-> FALSE] : L \in PagesArgs}

\* C18: the merge of a source without body elements, with
\* addPageBreakBefore false, leaves the target's body elements unchanged;
\* when the target has none either, it has exactly 1 page afterwards.
EmptySourceNoBreakKeepsBody ==
  \A source \in OpenableSources :
    SourceBody(source) = <<>> =>
      \A options \in NoBreakOptions :
        LET result == mergeFrom(target, source, options)
        IN /\ result.thrown = Null
           /\ result.doc.bodyElements = target.bodyElements
           /\ target.bodyElements = <<>> => getPageCount(result.doc) = 1

\* A target of two elements that the merge of an empty created document,
\* the break declined, leaves with the same two elements.
EmptySourceWitness ==
  /\ Len(target.bodyElements) = 2
  /\ mergeFrom(target, [kind |-> "document", document |-> create],
               [addPageBreakBefore |-> FALSE]).doc.bodyElements = target.bodyElements
  /\ getPageCount(mergeFrom(create, [kind |-> "document", document |-> create],
                            [addPageBreakBefore |-> FALSE]).doc) = 1

(***************************************************************************)
(* Saving and loading again.                                               *)
(***************************************************************************)
\* C15 as stated: the document loaded from the saved bytes of a built
\* document has the same body elements, section properties and namespace
\* declarations.
RoundTripSame ==
  LET loaded == reload(target)
  IN /\ loaded.bodyElements = target.bodyElements
     /\ loaded.sectPr = target.sectPr
     /\ loaded.namespaces = target.namespaces

\* C15 amended: the document loaded from the saved bytes has the same body
\* elements; the same section properties when the document has some, and
\* otherwise the default ones that saving writes; the same namespace
\* declarations when the document has any, and otherwise the two default
\* declarations.
RoundTripUpToDefaults ==
  LET loaded == reload(target)
  IN /\ loaded.bodyElements = target.bodyElements
     /\ loaded.sectPr = IF target.sectPr # Null THEN target.sectPr ELSE defaultSectPr
     /\ loaded.namespaces =
          IF DOMAIN target.namespaces # {} THEN target.namespaces
          ELSE ("xmlns:w" :> W_NS) @@ ("xmlns:r" :> R_NS)

\* A built document of two elements with the declarations and the section
\* properties of the loaded source, which come back from its saved bytes.
RoundTripWitness ==
  /\ target.dirty
  /\ Len(target.bodyElements) = 2
  /\ target.sectPr = SectPrA4
  /\ "xmlns:w14" \in DOMAIN target.namespaces
  /\ reload(target).sectPr = SectPrA4
  /\ reload(target).namespaces = target.namespaces

\* C16: the document loaded from the saved bytes has the page count of the
\* document saved, in every document built from create, saved and loaded
\* any number of times; loading the saved bytes of a loaded document gives
\* the same document again.
ReloadKeepsPageCount ==
  LET once == reload(target)
      twice == reload(once)
  IN /\ getPageCount(once) = getPageCount(target)
     /\ getPageCount(twice) = getPageCount(target)
     /\ twice.bodyElements = once.bodyElements

\* A document of three pages, modified since its parts were last written:
\* the parts still hold a document of two pages, the saved bytes one of
\* three.
ReloadWitness ==
  /\ target.dirty
  /\ DocumentPath \in DOMAIN target.files
  /\ getPageCount(target) = 3
  /\ getPageCount(fromBuffer(target.files)) = 2
  /\ getPageCount(reload(target)) = 3

(***************************************************************************)
(* Template substitution, told independently of the scanner: every literal *)
(* occurrence of a known placeholder is replaced from the left.            *)
(***************************************************************************)
Contains(text, part) ==
  \E i \in 0 .. Len(text) - Len(part) : SubSeq(text, i + 1, i + Len(part)) = part

RECURSIVE ReplaceLiteral(_, _, _)
ReplaceLiteral(text, literal, value) ==
  IF Len(text) < Len(literal) THEN text
  ELSE IF SubSeq(text, 1, Len(literal)) = literal
    THEN value \o ReplaceLiteral(SubSeq(text, Len(literal) + 1, Len(text)), literal, value)
  ELSE <<Head(text)>> \o ReplaceLiteral(Tail(text), literal, value)

ValueFor(key, data, options) ==
  IF key \in DOMAIN data THEN data[key]
  ELSE IF "removeMissing" \in DOMAIN options /\ options.removeMissing THEN <<>>
  ELSE Placeholder(key)

ExpectedText(text, data, options) ==
  ReplaceLiteral(
    ReplaceLiteral(text, Placeholder(NameKey), ValueFor(NameKey, data, options)),
    Placeholder(CityKey), ValueFor(CityKey, data, options))

\* The texts of all the paragraphs below the nodes, in document order.
RECURSIVE ParagraphTexts(_)
ParagraphTexts(nodes) ==
  IF nodes = <<>> THEN <<>>
  ELSE LET node == Head(nodes)
           own == IF HasTag(node, "w:p") THEN <<concatTexts(node.kids)>>
                  ELSE IF "kids" \in DOMAIN node THEN ParagraphTexts(node.kids)
                  ELSE <<>>
       IN own \o ParagraphTexts(Tail(nodes))

\* The proper pieces of the name placeholder that keep a brace and a letter.
NameFragments ==
  LET whole == Placeholder(NameKey)
  IN {SubSeq(whole, 1, k) : k \in 2 .. Len(whole) - 1}
       \cup {SubSeq(whole, k, Len(whole)) : k \in 2 .. Len(whole) - 1}

\* The name placeholder lies in the paragraph and in none of its runs.
SplitAcrossRuns(paragraph) ==
  /\ Contains(paragraphText(paragraph), Placeholder(NameKey))
  /\ \A k \in 1 .. Len(paragraph.kids) :
       ~Contains(concatTexts(<<paragraph.kids[k]>>), Placeholder(NameKey))

\* C19: when the placeholder {name} is cut across the runs of a body
\* paragraph and the data give a value for name, the text of the paragraph
\* after render contains the value and contains neither {name} nor a cut
\* piece of it such as "{na" or "me}".
SplitPlaceholderReplaced ==
  \A data \in {d \in DataMaps : NameKey \in DOMAIN d}, options \in RenderOptions :
    LET rendered == render(target, data, options)
    IN \A i \in 1 .. Len(target.bodyElements) :
         (HasTag(target.bodyElements[i], "w:p") /\ SplitAcrossRuns(target.bodyElements[i]))
           => LET text == paragraphText(rendered.bodyElements[i])
              IN /\ Contains(text, data[NameKey])
                 /\ ~Contains(text, Placeholder(NameKey))
                 /\ \A fragment \in NameFragments : ~Contains(text, fragment)

\* The paragraph of the runs "{na" and "me}" is rendered with name = Ivy and
\* reads "Ivy".
SplitPlaceholderWitness ==
  /\ target.bodyElements # <<>>
  /\ target.bodyElements[1] =
       RunsParagraph(<< <<OpenBrace, "n", "a">>, <<"m", "e", CloseBrace>> >>)
  /\ paragraphText(render(target, NameKey :> Ivy, <<>>).bodyElements[1]) = Ivy

\* The header and footer parts that a relationship record of the main
\* document part names with that type.
NamedAs(files, path, type) ==
  /\ HasText(files, DocumentRelsPath)
  /\ HasText(files, path)
  /\ LET records == findElement(parseXml(readZipText(files, DocumentRelsPath)),
                                "Relationships").kids
     IN \E k \in 1 .. Len(records) :
          /\ records[k].attrs.Type = type
          /\ "word/" \o records[k].attrs.Target = path

ExpectedTexts(nodes, data, options) ==
  LET texts == ParagraphTexts(nodes)
  IN [k \in 1 .. Len(texts) |-> ExpectedText(texts[k], data, options)]

\* C20: one render call with a data map substitutes from that map in every
\* paragraph of the body, those of table cells included, and in every
\* paragraph of each part that a header or footer relationship names; the
\* saved package holds the substituted body and parts.
RenderCoversBodyHeadersFooters ==
  \A data \in DataMaps, options \in RenderOptions :
    LET rendered == render(target, data, options)
        saved == toBuffer(rendered).buffer
    IN /\ ParagraphTexts(rendered.bodyElements)
            = ExpectedTexts(target.bodyElements, data, options)
       /\ ParagraphTexts(fromBuffer(saved).bodyElements)
            = ExpectedTexts(target.bodyElements, data, options)
       /\ \A path \in {HeaderPath, FooterPath} :
            (NamedAs(target.files, path, HeaderType) \/ NamedAs(target.files, path, FooterType))
              => /\ HasText(saved, path)
                 /\ ParagraphTexts(parseXml(readZipText(saved, path)))
                      = ExpectedTexts(parseXml(readZipText(target.files, path)), data, options)

\* A template whose header holds {name} and whose footer and table cell hold
\* {city}, both named by relationships, is rendered with name and city: the
\* header reads "Top Ivy", the footer "End Paris" and the cell "Paris".
RenderCoversWitness ==
  /\ NamedAs(target.files, HeaderPath, HeaderType)
  /\ NamedAs(target.files, FooterPath, FooterType)
  /\ ParagraphTexts(parseXml(readZipText(target.files, HeaderPath)))
       = << <<"T", "o", "p", " ">> \o Placeholder(NameKey) >>
  /\ ParagraphTexts(target.bodyElements)
       = << <<"H", "i", " ">> \o Placeholder(NameKey), Placeholder(CityKey) >>
  /\ LET rendered == render(target, (NameKey :> Ivy) @@ (CityKey :> Paris), <<>>)
     IN /\ ParagraphTexts(parseXml(readZipText(rendered.files, HeaderPath)))
             = << <<"T", "o", "p", " ">> \o Ivy >>
        /\ ParagraphTexts(parseXml(readZipText(rendered.files, FooterPath)))
             = << <<"E", "n", "d", " ">> \o Paris >>
        /\ ParagraphTexts(rendered.bodyElements) = << <<"H", "i", " ">> \o Ivy, Paris >>

(***************************************************************************)
(* Two documents: what each holds and shows.                               *)
(***************************************************************************)
RECURSIVE NodeIds(_)
NodeIds(nodes) ==
  IF nodes = <<>> THEN {}
  ELSE LET node == Head(nodes)
       IN {node.id}
            \cup (IF "kids" \in DOMAIN node THEN NodeIds(node.kids) ELSE {})
            \cup NodeIds(Tail(nodes))

NodesOf(h, doc) ==
  NodeIds(h.arrays[doc.bodyElements])
    \cup (IF doc.sectPr = Null THEN {} ELSE NodeIds(<<doc.sectPr>>))

Observed(h, doc) ==
  [bodyElements |-> h.arrays[doc.bodyElements], sectPr |-> doc.sectPr,
   pageCount |-> getPageCount(view(h, doc))]

RECURSIVE Unstamped(_)
Unstamped(node) ==
  [f \in DOMAIN node \ {"id"} |->
     IF f = "kids" THEN [k \in 1 .. Len(node.kids) |-> Unstamped(node.kids[k])]
     ELSE node[f]]

\* Every addPageBreak, removePage and merge of the document changed leaves
\* the document kept as it shows now.
LeavesAlone(changed, kept) ==
  LET shown == Observed(heap, kept)
  IN /\ Observed(addPageBreakAt(heap, changed).heap, kept) = shown
     /\ \A index \in -1 .. getPageCount(view(heap, changed)) :
          Observed(removePageAt(heap, changed, index).heap, kept) = shown
     /\ \A options \in SharedOptions, from \in {changed, kept} :
          Observed(mergeAt(heap, changed, from, options).heap, kept) = shown

\* C13: whatever merges the target and the source have made from each other,
\* no node and no body array belongs to both, and an addPageBreak, a
\* removePage or a merge on either leaves the body elements, the section
\* properties and the page count of the other unchanged.
MergedDocumentsShareNothing ==
  /\ target.bodyElements # theSource.bodyElements
  /\ NodesOf(heap, target) \cap NodesOf(heap, theSource) = {}
  /\ LeavesAlone(theSource, target)
  /\ LeavesAlone(target, theSource)

\* A created target has merged every page of the loaded source: it holds
\* the source's elements and section properties as copies; a page break
\* added to the source afterwards gives the source one more page and the
\* target none.
MergedDocumentsWitness ==
  /\ target.dirty
  /\ ~(DocumentPath \in DOMAIN target.files)
  /\ "word/styles.xml" \in DOMAIN target.files
  /\ LET own == heap.arrays[target.bodyElements]
         theirs == heap.arrays[theSource.bodyElements]
     IN /\ Len(own) = 2
        /\ Len(theirs) = 2
        /\ \A k \in 1 .. 2 : Unstamped(own[k]) = Unstamped(theirs[k]) /\ own[k] # theirs[k]
  /\ target.sectPr # Null
  /\ Unstamped(target.sectPr) = Unstamped(theSource.sectPr)
  /\ LET later == addPageBreakAt(heap, theSource)
     IN /\ getPageCount(view(later.heap, later.doc)) = getPageCount(view(heap, theSource)) + 1
        /\ getPageCount(view(later.heap, target)) = getPageCount(view(heap, target))

\* C21: in every state reached through load, addPageBreak, removePage and
\* merge from any source, no body element is a section-properties node.
BodyHoldsNoSectPr ==
  \A i \in 1 .. Len(target.bodyElements) : ~HasTag(target.bodyElements[i], "w:sectPr")

\* A document loaded from a package whose body ends with section properties
\* has kept them apart and has been changed afterwards.
BodyHoldsNoSectPrWitness ==
  /\ DocumentPath \in DOMAIN target.files
  /\ target.sectPr = SectPrA4
  /\ target.dirty
  /\ Len(target.bodyElements) = 3

\* The body elements that the primary part of an archive holds.
SavedBody(buffer) ==
  LET parsed == parseXml(readZipText(buffer, DocumentPath))
      body == findElement(findElement(parsed, "w:document").kids, "w:body")
  IN SubSeq(body.kids, 1, Len(body.kids) - 1)

\* C22: toBuffer leaves the parts as they are when dirty is false and the
\* Part Store is not empty, and otherwise writes a primary part that holds
\* the current body elements; addPageBreak, a successful removePage and
\* merge set dirty and toBuffer does not reset it, so the only documents
\* that are not dirty are loaded documents that were never changed: a
\* created document is dirty in every state.
SaveRegeneratesUnlessUntouched ==
  LET saved == toBuffer(target)
  IN /\ target.dirty \/ target \in {fromBuffer(data) : data \in LoadedArchives}
     /\ IF ~target.dirty /\ DOMAIN target.files # {}
          THEN saved.doc.files = target.files
          ELSE SavedBody(saved.buffer) = target.bodyElements
     /\ saved.doc.dirty = target.dirty
     /\ addPageBreak(target).dirty
     /\ \A index \in -1 .. getPageCount(target) :
          LET removed == removePage(target, index)
          IN removed.thrown = Null => removed.doc.dirty
     /\ \A source \in BuiltSources, options \in BuiltOptions :
          LET merged == mergeFrom(target, source, options)
          IN merged.thrown = Null => merged.doc.dirty

\* A created document was saved, then given a page break: it is dirty, its
\* stored primary part still has the body of the first save, and the next
\* save writes the current body.
SaveRegeneratesWitness ==
  /\ target.dirty
  /\ DOMAIN target.files = {ContentTypesPath, RootRelsPath, DocumentPath, DocumentRelsPath}
  /\ Len(target.bodyElements) = 1
  /\ SavedBody(target.files) = <<>>
  /\ SavedBody(toBuffer(target).buffer) = target.bodyElements

\* The default section properties, value by value.
LetterSectPr ==
  [tag |-> "w:sectPr",
   kids |-> << [tag |-> "w:pgSz", kids |-> <<>>,
                attrs |-> [n \in {"w:w", "w:h"} |-> IF n = "w:w" THEN "12240" ELSE "15840"]],
               [tag |-> "w:pgMar", kids |-> <<>>,
                attrs |-> [n \in {"w:top", "w:right", "w:bottom", "w:left", "w:header",
                                  "w:footer", "w:gutter"} |->
                             IF n \in {"w:top", "w:right", "w:bottom", "w:left"} THEN "1440"
                             ELSE IF n = "w:gutter" THEN "0" ELSE "720"]] >>]

CountTag(nodes, tagName) ==
  Cardinality({k \in 1 .. Len(nodes) : HasTag(nodes[k], tagName)})

\* C23: the primary part that a save regenerates has one w:document root
\* with one w:body; the body children are the body elements in their order
\* and then one section-properties node, equal to the stored one or else to
\* the default, and no other; the root attributes are the collected
\* namespace declarations, or xmlns:w and xmlns:r alone when there are none.
RegeneratedPartLayout ==
  (target.dirty \/ DOMAIN target.files = {}) =>
    LET parsed == parseXml(readZipText(toBuffer(target).buffer, DocumentPath))
        root == findElement(parsed, "w:document")
        children == root.kids[1].kids
    IN /\ Len(root.kids) = 1
       /\ HasTag(root.kids[1], "w:body")
       /\ Len(children) = Len(target.bodyElements) + 1
       /\ SubSeq(children, 1, Len(target.bodyElements)) = target.bodyElements
       /\ children[Len(children)] =
            (IF target.sectPr # Null THEN target.sectPr ELSE LetterSectPr)
       /\ CountTag(children, "w:sectPr") = 1
       /\ root.attrs =
            (IF DOMAIN target.namespaces # {} THEN target.namespaces
             ELSE [n \in {"xmlns:w", "xmlns:r"} |-> IF n = "xmlns:w" THEN W_NS ELSE R_NS])

\* A changed document with body elements, no stored section properties and
\* no collected declaration: the default goes last and the two default
\* declarations are on the root.
RegeneratedPartWitness ==
  /\ target.dirty
  /\ target.sectPr = Null
  /\ DOMAIN target.namespaces = {}
  /\ Len(target.bodyElements) = 2
  /\ LET parsed == parseXml(readZipText(toBuffer(target).buffer, DocumentPath))
         root == findElement(parsed, "w:document")
     IN /\ root.kids[1].kids[3] = LetterSectPr
        /\ DOMAIN root.attrs = {"xmlns:w", "xmlns:r"}

\* The number of section-properties nodes in the body of the primary part.
SectPrCount(buffer) ==
  CountTag(findElement(findElement(parseXml(readZipText(buffer, DocumentPath)),
                                   "w:document").kids, "w:body").kids, "w:sectPr")

\* C24: toBuffer leaves the body elements, the section properties, the
\* namespace declarations and dirty as they are, and a second toBuffer right
\* after the first writes the same parts with the same contents, with no
\* more section-properties nodes than the first.
SaveIsReadOnlyAndRepeatable ==
  LET first == toBuffer(target)
      second == toBuffer(first.doc)
  IN /\ first.doc.bodyElements = target.bodyElements
     /\ first.doc.sectPr = target.sectPr
     /\ first.doc.namespaces = target.namespaces
     /\ first.doc.dirty = target.dirty
     /\ DOMAIN second.buffer = DOMAIN first.buffer
     /\ \A path \in DOMAIN first.buffer : second.buffer[path] = first.buffer[path]
     /\ SectPrCount(second.buffer) = SectPrCount(first.buffer)
     /\ SectPrCount(second.buffer) <= 1

\* A changed document with stored section properties and two body elements
\* was saved: its primary part is up to date, and the next save writes it
\* again with one section-properties node after the two elements.
SaveIsRepeatableWitness ==
  /\ target.dirty
  /\ target.sectPr # Null
  /\ Len(target.bodyElements) = 2
  /\ DocumentPath \in DOMAIN target.files
  /\ SavedBody(target.files) = target.bodyElements
  /\ toBuffer(target).buffer = writeZip(target.files)

\* The primary part is absent, or no top-level node of it is w:document, or
\* no child of its document root is w:body.
WithoutBodyRoot(files) ==
  \/ ~(DocumentPath \in DOMAIN files)
  \/ LET nodes == files[DocumentPath].text.markup
         documents == {k \in 1 .. Len(nodes) : nodes[k].tag = "w:document"}
     IN \/ documents = {}
        \/ \A k \in documents :
             \A c \in 1 .. Len(nodes[k].kids) : nodes[k].kids[c].tag # "w:body"

\* C25: a document loaded from a package without primary part, without
\* document root or without body root is a Document with no body element
\* and no section properties.
LoadWithoutBodyIsEmpty ==
  (~target.dirty /\ WithoutBodyRoot(target.files)) =>
    /\ DOMAIN target = {"files", "bodyElements", "dirty", "namespaces", "sectPr"}
    /\ target.bodyElements = <<>>
    /\ target.sectPr = Null

\* Loaded from a package whose document root holds a paragraph and section
\* properties directly, with no body root: the declarations of the root are
\* collected, the document is empty.
LoadWithoutBodyWitness ==
  /\ ~target.dirty
  /\ DocumentPath \in DOMAIN target.files
  /\ LET nodes == target.files[DocumentPath].text.markup
     IN /\ nodes[1].tag = "w:document"
        /\ Len(nodes[1].kids) = 2
        /\ nodes[1].kids[1].tag = "w:p"
        /\ nodes[1].kids[2].tag = "w:sectPr"
  /\ DOMAIN target.namespaces = {"xmlns:w"}
  /\ target.bodyElements = <<>>
  /\ target.sectPr = Null

\* The resolved page list is not empty and none of its pages has an element.
OnlyEmptyPages(bodyElements, options) ==
  LET resolved == ResolvedPages(bodyElements, options)
  IN /\ resolved # <<>>
     /\ \A k \in 1 .. Len(resolved) : PageElements(bodyElements, resolved[k]) = <<>>

\* C27: when the resolved page list is not empty but holds only pages
\* without elements, the break is requested and the target has body
\* elements, merge appends one break paragraph and nothing else, and the
\* page count of the target rises by 1.
MergeOfEmptyPagesAddsBreak ==
  \A source \in OpenableSources :
    LET sourceBody == SourceBody(source)
    IN \A options \in MergeOptionsSet :
         (/\ OnlyEmptyPages(sourceBody, options)
          /\ BreakRequested(options)
          /\ target.bodyElements # <<>>)
           => LET result == mergeFrom(target, source, options)
              IN /\ result.thrown = Null
                 /\ result.doc.bodyElements
                      = Append(target.bodyElements, createPageBreakParagraph)
                 /\ getPageCount(result.doc) = getPageCount(target) + 1

\* A target of one text paragraph merges a created, empty source with the
\* options omitted: the source has its one page without elements, and the
\* target gets a break and a second page.
MergeOfEmptyPagesWitness ==
  /\ target.bodyElements = <<TextParagraph("b")>>
  /\ LET source == [kind |-> "document", document |-> create]
     IN /\ source \in OpenableSources
        /\ OnlyEmptyPages(SourceBody(source), <<>>)
        /\ getPageCount(mergeFrom(target, source, <<>>).doc) = 2

\* C28: a save fills the Part Store of a created document with the four
\* default parts, so a created and still empty document is no longer
\* pristine after a save, and a merge into it takes over neither the
\* section properties of the source nor any of its parts, while its elements
\* are appended as usual.
MergeAfterSaveCopiesNoStructure ==
  /\ Pristine(target) =>
       LET saved == toBuffer(target).doc
       IN /\ saved.bodyElements = <<>>
          /\ DOMAIN saved.files = BasicParts
          /\ ~isFirstMergeOf(saved)
  /\ (target.bodyElements = <<>> /\ DOMAIN target.files = BasicParts /\ target.sectPr = Null) =>
       \A source \in BuiltSources, options \in BuiltOptions :
         LET merged == mergeFrom(target, source, options).doc
         IN /\ merged.sectPr = Null
            /\ merged.files = target.files

\* A created document was saved while empty; merging the loaded letter into
\* it appends the letter's two elements and leaves it without section
\* properties and without the letter's style part.
MergeAfterSaveWitness ==
  /\ target.bodyElements = <<>>
  /\ DOMAIN target.files = BasicParts
  /\ target.sectPr = Null
  /\ LET merged == merge(target, fromBuffer(ArchiveLetter), <<>>)
     IN /\ Len(merged.bodyElements) = 2
        /\ merged.sectPr = Null
        /\ ~("word/styles.xml" \in DOMAIN merged.files)

\* The positions (1-based) that removePage takes out for page j: those of
\* the page's elements, or the break before an empty last page, or none.
RemovedPositions(bodyElements, j) ==
  LET first == IF j = 0 THEN 1 ELSE NthBreak(bodyElements, j) + 1
      last == IF j < BreakCount(bodyElements)
                THEN NthBreak(bodyElements, j + 1) ELSE Len(bodyElements)
  IN IF first <= last THEN first .. last
     ELSE IF j > 0 THEN {NthBreak(bodyElements, j)}
     ELSE {}

Without(bodyElements, positions) ==
  LET kept == {k \in 1 .. Len(bodyElements) : k \notin positions}
      nth(m) == CHOOSE k \in kept : Cardinality({c \in kept : c <= k}) = m
  IN [m \in 1 .. Cardinality(kept) |-> bodyElements[nth(m)]]

\* C29: a successful removePage(i) takes out one run of neighbouring
\* elements and nothing else: the elements of page i with its closing break
\* when the page has elements, the one break before it when it is the empty
\* last page, nothing when the document has no element; the other elements
\* stay in their order, and the section properties, the namespace
\* declarations and the parts are unchanged.
RemoveTakesOneBlock ==
  \A index \in 0 .. getPageCount(target) - 1 :
    LET result == removePage(target, index)
        positions == RemovedPositions(target.bodyElements, index)
    IN /\ result.thrown = Null
       /\ \A a, b \in positions : \A c \in a .. b : c \in positions
       /\ result.doc.bodyElements = Without(target.bodyElements, positions)
       /\ result.doc.sectPr = target.sectPr
       /\ result.doc.namespaces = target.namespaces
       /\ result.doc.files = target.files

\* Four elements in three pages, closed by a break: removing the second page
\* takes its two elements, removing the empty fourth page takes the closing
\* break alone.
RemoveTakesOneBlockWitness ==
  /\ Len(target.bodyElements) = 4
  /\ BreakPositions(target.bodyElements) = {1, 3, 4}
  /\ removePage(target, 1).doc.bodyElements
       = <<target.bodyElements[1], target.bodyElements[4]>>
  /\ removePage(target, 3).doc.bodyElements = SubSeq(target.bodyElements, 1, 3)
  /\ target.sectPr # Null

(***************************************************************************)
(* Merge calls in flight.                                                  *)
(***************************************************************************)
Finished(c) == calls[c].sourceDoc # Null /\ calls[c].turns = <<>>

BetweenTurns(c) ==
  calls[c].sourceDoc # Null /\ calls[c].turns # <<>> /\ calls[c].turns # mergeTurns

Orders(S) ==
  {order \in [1 .. Cardinality(S) -> S] :
     \A i, j \in 1 .. Cardinality(S) : i # j => order[i] # order[j]}

\* The body after the merges of the calls, one whole block after the other:
\* a break when the break is requested, the body before is not empty and a
\* page is resolved, then the elements of the resolved pages.
RECURSIVE BlocksInOrder(_)
BlocksInOrder(order) ==
  IF Len(order) = 0 THEN <<>>
  ELSE LET before == BlocksInOrder(SubSeq(order, 1, Len(order) - 1))
           call == calls[order[Len(order)]]
           sourceBody == call.sourceDoc.bodyElements
           withBreak == /\ BreakRequested(call.options)
                        /\ before # <<>>
                        /\ ResolvedPages(sourceBody, call.options) # <<>>
       IN before \o (IF withBreak THEN <<createPageBreakParagraph>> ELSE <<>>)
                 \o ExpectedElements(sourceBody, call.options)

\* The document after the merges of the calls, each awaited before the next.
RECURSIVE MergedInOrder(_)
MergedInOrder(order) ==
  IF Len(order) = 0 THEN create
  ELSE LET call == calls[order[Len(order)]]
       IN merge(MergedInOrder(SubSeq(order, 1, Len(order) - 1)),
                call.sourceDoc, call.options)

\* C26: a merge call does all its changes in one turn, so whenever calls on
\* one target were started without being awaited, the target is what the
\* finished calls give when run one after the other in some order, and its
\* body is their blocks (break, then copied pages) laid end to end in that
\* order: no block is cut by another call.
MergesDoNotInterleave ==
  /\ \A c \in 1 .. Len(calls) : ~BetweenTurns(c)
  /\ \E order \in Orders({c \in 1 .. Len(calls) : Finished(c)}) :
       /\ target.bodyElements = BlocksInOrder(order)
       /\ target = MergedInOrder(order)

\* Two calls with buffers were started and the second got its source first:
\* the body holds the block of the second call, a break and the block of
\* the first, and another call has failed to open its source.
MergesDoNotInterleaveWitness ==
  /\ Len(calls) = 3
  /\ Finished(1) /\ Finished(2)
  /\ calls[3].thrown # Null
  /\ calls[1].source.kind = "path"
  /\ calls[2].source.kind = "buffer"
  /\ target.bodyElements = BlocksInOrder(<<2, 1>>)
  /\ target.bodyElements # BlocksInOrder(<<1, 2>>)
  /\ Len(target.bodyElements) = 4

====
